---- MODULE Spec2Model ----
(***************************************************************************)
(* Model of the curation stage (src/src/process_to_curated.py): the        *)
(* per-table normalizer, the outer-join merger, the feature passes and the *)
(* sink.  A DataFrame is a record                                           *)
(*     [cols |-> sequence of column names, num |-> the columns whose dtype *)
(*      is numeric, rows |-> sequence of rows, a row being a function from *)
(*      column names to cells].                                            *)
(* A column name is the sequence of its "_"-separated tokens, so that the  *)
(* code's suffix tests (endswith) are tests on token sequences.            *)
(* A cell is a record with a tag t: "null" (None/NaN), "num" (a float,     *)
(* held exactly as the reduced fraction n/d), "inf" (a float infinity of   *)
(* sign n), "str" (text s) or "date" (a timestamp, n hours).               *)
(***************************************************************************)
EXTENDS Integers, Sequences, FiniteSets, TLC

VARIABLES store, table_names, pc, processed_dfs, merged_df, before, log, curated,
          runs, data, par, poll

vars == <<store, table_names, pc, processed_dfs, merged_df, before, log, curated, runs,
          data, par, poll>>

----------------------------------------------------------------------------
(* Cells and exact arithmetic on them.                                     *)

Null == [t |-> "null", n |-> 0, d |-> 1, s |-> ""]

Str(x) == [t |-> "str", n |-> 0, d |-> 1, s |-> x]

Date(h) == [t |-> "date", n |-> h, d |-> 1, s |-> ""]

Inf(sign) == [t |-> "inf", n |-> sign, d |-> 1, s |-> ""]

Abs(x) == IF x < 0 THEN -x ELSE x

RECURSIVE GCD(_, _)
GCD(a, b) == IF b = 0 THEN a ELSE GCD(b, a % b)

\* The float n/d, reduced, with a positive denominator.
Rat(n, d) ==
  LET g == GCD(Abs(n), Abs(d))
      sg == IF d < 0 THEN -1 ELSE 1
  IN [t |-> "num", n |-> sg * (n \div g), d |-> Abs(d) \div g, s |-> ""]

Num(n) == Rat(n, 1)

\* pd.isnull / pd.notnull
IsNull(c) == c.t = "null"

IsNum(c) == c.t = "num"

\* Float arithmetic: a null (NaN) operand gives null.
Add(a, b) ==
  IF IsNum(a) /\ IsNum(b)
  THEN LET g == GCD(a.d, b.d)
       IN Rat(a.n * (b.d \div g) + b.n * (a.d \div g), (a.d \div g) * b.d)
  ELSE Null

Neg(a) == IF IsNum(a) THEN Rat(-a.n, a.d) ELSE Null

Sub(a, b) == Add(a, Neg(b))

Mul(a, b) ==
  IF IsNum(a) /\ IsNum(b)
  THEN LET g1 == GCD(Abs(a.n), b.d)
           g2 == GCD(Abs(b.n), a.d)
       IN IF a.n = 0 \/ b.n = 0 THEN Num(0)
          ELSE Rat((a.n \div g1) * (b.n \div g2), (a.d \div g2) * (b.d \div g1))
  ELSE Null

\* Float division: x/0 is an infinity of x's sign, 0/0 is NaN.
Div(a, b) ==
  IF IsNum(a) /\ IsNum(b)
  THEN IF b.n = 0
       THEN (IF a.n = 0 THEN Null ELSE Inf(IF a.n > 0 THEN 1 ELSE -1))
       ELSE Mul(a, Rat(b.d, b.n))
  ELSE Null

RECURSIVE SumCells(_)
SumCells(cs) == IF cs = <<>> THEN Num(0) ELSE Add(cs[1], SumCells(Tail(cs)))

NonNull(cs) == SelectSeq(cs, LAMBDA c : ~IsNull(c))

\* Mean with the sum of the non-null cells divided by the number of all cells.
MeanOverAllCells(cs) ==
  IF cs = <<>> THEN Null
  ELSE Div(SumCells(SelectSeq(cs, LAMBDA c : ~IsNull(c))), Num(Len(cs)))

\* Series.mean(): the mean of the non-null cells, NaN when there is none.
Mean(cs) ==
  LET xs == NonNull(cs)
  IN IF xs = <<>> THEN Null ELSE Div(SumCells(xs), Num(Len(xs)))

\* Series.fillna(v): fillna(NaN) changes nothing.
FillNa(cs, v) == [i \in 1..Len(cs) |-> IF IsNull(cs[i]) THEN v ELSE cs[i]]

----------------------------------------------------------------------------
(* Column names and DataFrame helpers.                                     *)

CodeSite == <<"code", "site">>

DateDeDebut == <<"date", "de", "debut">>

DateDeFin == <<"date", "de", "fin">>

Polluant == <<"polluant">>

Valeur == <<"valeur">>

ValeurBrute == <<"valeur", "brute">>

UniteDeMesure == <<"unite", "de", "mesure">>

TypeDeValeur == <<"type", "de", "valeur">>

GParL == <<"g", "par", "L">>

ConversionFactor == <<"conversion", "factor">>

Diff6hrs == <<"diff", "6hrs">>

PercentChange6hrs == <<"percent", "change", "6hrs">>

Total == <<"total", "valeur", "particule", "g", "par", "L">>

KeyCols == {CodeSite, DateDeDebut}

\* str.endswith("_" + suffix): the name ends with the suffix's tokens and has
\* a token before them.
EndsWith(col, suffix) ==
  /\ Len(col) > Len(suffix)
  /\ SubSeq(col, Len(col) - Len(suffix) + 1, Len(col)) = suffix

\* str.replace("_" + suffix, "") on a name that ends with the suffix.
StripSuffix(col, suffix) == SubSeq(col, 1, Len(col) - Len(suffix))

EmptyDf == [cols |-> <<>>, num |-> {}, rows |-> <<>>]

ColSet(df) == {df.cols[i] : i \in 1..Len(df.cols)}

NRows(df) == Len(df.rows)

\* df[col]
Column(df, col) == [i \in 1..NRows(df) |-> df.rows[i][col]]

\* df[col] = cells (a new column goes last, an existing one keeps its place).
SetColumn(df, col, cells, numeric) ==
  [cols |-> IF col \in ColSet(df) THEN df.cols ELSE Append(df.cols, col),
   num |-> IF numeric THEN df.num \cup {col} ELSE df.num \ {col},
   rows |-> [i \in 1..NRows(df) |->
               [c \in ColSet(df) \cup {col} |->
                  IF c = col THEN cells[i] ELSE df.rows[i][c]]]]

\* df.drop(columns=dropped)
DropColumns(df, dropped) ==
  [cols |-> SelectSeq(df.cols, LAMBDA c : c \notin dropped),
   num |-> df.num \ dropped,
   rows |-> [i \in 1..NRows(df) |->
               [c \in ColSet(df) \ dropped |-> df.rows[i][c]]]]

----------------------------------------------------------------------------
(* replace_null_values_by_mean                                             *)

\* FillColumn with fillna(0).
FillColumnZero(df, col) ==
  SetColumn(df, col, [i \in 1..NRows(df) |->
                        IF IsNull(df.rows[i][col]) THEN Num(0) ELSE df.rows[i][col]],
            TRUE)

\* FillColumn with the whole column set to its mean.
FillColumnOverwrite(df, col) ==
  SetColumn(df, col, [i \in 1..NRows(df) |-> Mean(Column(df, col))], TRUE)

FillColumn(df, col) ==
  LET mean_val == Mean(Column(df, col))
  IN SetColumn(df, col, FillNa(Column(df, col), mean_val), TRUE)

RECURSIVE FillColumns(_, _)
FillColumns(df, cs) ==
  IF cs = <<>> THEN df ELSE FillColumns(FillColumn(df, cs[1]), Tail(cs))

\* df.select_dtypes(include='number').columns
NumericCols(df) == SelectSeq(df.cols, LAMBDA c : c \in df.num)

replace_null_values_by_mean(df) == FillColumns(df, NumericCols(df))

----------------------------------------------------------------------------
(* convert_units                                                           *)

\* The dict unit_conversion of the source.  Its second key is written in the
\* source as the seven characters U+00C2 U+00B5 g - m 3, which is not the
\* unit symbol U+00B5 g - m 3.
UnitKeys == {"mg-m3", "Âµg-m3", "ng-m3"}

unit_conversion(u) ==
  CASE u = "mg-m3" -> Rat(1, 1000)
    [] u = "Âµg-m3" -> Rat(1, 1000000)
    [] u = "ng-m3" -> Rat(1, 1000000000)
    [] OTHER -> Null

\* MapFactor with a default factor of 1 for a unit outside the dict.
MapFactorDefaultOne(c) ==
  IF c.t = "str"
  THEN (IF c.s \in UnitKeys THEN unit_conversion(c.s) ELSE Num(1))
  ELSE Null

\* Series.map(unit_conversion): a cell that is no key of the dict gives NaN.
MapFactor(c) == IF c.t = "str" THEN unit_conversion(c.s) ELSE Null

AnyNull(cs) == \E i \in 1..Len(cs) : IsNull(cs[i])

Max(S) == CHOOSE x \in S : \A y \in S : y <= x

Min(S) == CHOOSE x \in S : \A y \in S : x <= y

\* Series.ffill(): a null cell takes the last non-null cell above it.
Ffill(cs) ==
  [i \in 1..Len(cs) |->
     LET above == {j \in 1..(i - 1) : ~IsNull(cs[j])}
     IN IF ~IsNull(cs[i]) THEN cs[i]
        ELSE IF above = {} THEN Null ELSE cs[Max(above)]]

\* Series.bfill(): a null cell takes the first non-null cell below it.
Bfill(cs) ==
  [i \in 1..Len(cs) |->
     LET below == {j \in (i + 1)..Len(cs) : ~IsNull(cs[j])}
     IN IF ~IsNull(cs[i]) THEN cs[i]
        ELSE IF below = {} THEN Null ELSE cs[Min(below)]]

ForwardFillUnits(df, unit_column) ==
  IF AnyNull(Column(df, unit_column))
  THEN SetColumn(df, unit_column, Ffill(Column(df, unit_column)), FALSE)
  ELSE df

BackwardFillUnits(df, unit_column) ==
  IF AnyNull(Column(df, unit_column))
  THEN SetColumn(df, unit_column, Bfill(Column(df, unit_column)), FALSE)
  ELSE df

AddFactorColumn(df, unit_column, factor_column) ==
  SetColumn(df, factor_column,
            [i \in 1..NRows(df) |-> MapFactor(df.rows[i][unit_column])], TRUE)

ConvertValueColumn(df, value_col, factor_column) ==
  IF value_col \in ColSet(df)
  THEN SetColumn(df, value_col \o GParL,
                 [i \in 1..NRows(df) |->
                    Mul(df.rows[i][value_col], df.rows[i][factor_column])],
                 TRUE)
  ELSE df

DropFactorColumn(df, factor_column) == DropColumns(df, {factor_column})

\* One turn of the loop over unit_columns.
ConvertUnitColumn(df, unit_column) ==
  LET table_prefix == StripSuffix(unit_column, UniteDeMesure)
      factor_column == table_prefix \o ConversionFactor
      d1 == ForwardFillUnits(df, unit_column)
      d2 == BackwardFillUnits(d1, unit_column)
      d3 == AddFactorColumn(d2, unit_column, factor_column)
      d4 == ConvertValueColumn(d3, table_prefix \o Valeur, factor_column)
      d5 == ConvertValueColumn(d4, table_prefix \o ValeurBrute, factor_column)
  IN DropFactorColumn(d5, factor_column)

RECURSIVE ConvertUnitColumns(_, _)
ConvertUnitColumns(df, cs) ==
  IF cs = <<>> THEN df
  ELSE ConvertUnitColumns(ConvertUnitColumn(df, cs[1]), Tail(cs))

UnitColumns(df) == SelectSeq(df.cols, LAMBDA c : EndsWith(c, UniteDeMesure))

convert_units(df) == ConvertUnitColumns(df, UnitColumns(df))

----------------------------------------------------------------------------
(* aggregate_valeurs                                                       *)

AggregateCols(df) ==
  SelectSeq(df.cols, LAMBDA c : EndsWith(c, Valeur \o GParL)
                                /\ ~EndsWith(c, TypeDeValeur))
  \o SelectSeq(df.cols, LAMBDA c : EndsWith(c, ValeurBrute \o GParL))

\* RowSum without the pd.notnull test: a null cell makes the sum null.
RowSumNoSkip(row, cols) == SumCells([k \in 1..Len(cols) |-> row[cols[k]]])

\* The inner loop: row_sum starts at 0 and adds every non-null cell.
RowSum(row, cols) ==
  SumCells(NonNull([k \in 1..Len(cols) |-> row[cols[k]]]))

aggregate_valeurs(df) ==
  LET cols == AggregateCols(df)
  IN SetColumn(df, Total,
               [i \in 1..NRows(df) |-> RowSum(df.rows[i], cols)], TRUE)

----------------------------------------------------------------------------
(* shift_and_calculate_diff_6_hours_ago, calculate_particle_variation      *)

ShiftPeriods == 6

ValueColumns(df) ==
  SelectSeq(df.cols, LAMBDA c : (EndsWith(c, Valeur) /\ ~EndsWith(c, TypeDeValeur))
                                \/ c = Total)

\* pd.to_numeric(errors='coerce'): a cell that is no number becomes NaN (no
\* text cell of the model spells a number).
ToNumeric(c) == IF c.t \in {"num", "inf"} THEN c ELSE Null

\* Series.shift(k)
Shift(cs, k) == [i \in 1..Len(cs) |-> IF i > k THEN cs[i - k] ELSE Null]

\* DiffColumn without shifted_col.fillna(df[value_col]).
DiffColumnNoFill(df, value_col) ==
  LET cur == [i \in 1..NRows(df) |-> ToNumeric(df.rows[i][value_col])]
      shifted_col == Shift(cur, ShiftPeriods)
  IN SetColumn(SetColumn(df, value_col, cur, TRUE), value_col \o Diff6hrs,
               [i \in 1..Len(cur) |-> Sub(cur[i], shifted_col[i])], TRUE)

\* DiffColumn with the shift taken inside each site
\* (df.groupby('code_site')[value_col].shift(6)).
DiffColumnPerSite(df, value_col) ==
  LET d1 == SetColumn(df, value_col,
                      [i \in 1..NRows(df) |-> ToNumeric(df.rows[i][value_col])],
                      TRUE)
      cur == Column(d1, value_col)
      same(i) == SelectSeq([j \in 1..(i - 1) |-> j],
                           LAMBDA j : df.rows[j][CodeSite] = df.rows[i][CodeSite])
      shifted_col == [i \in 1..Len(cur) |->
                        IF Len(same(i)) >= ShiftPeriods
                        THEN cur[same(i)[Len(same(i)) - ShiftPeriods + 1]]
                        ELSE Null]
      filled == [i \in 1..Len(cur) |->
                   IF IsNull(shifted_col[i]) THEN cur[i] ELSE shifted_col[i]]
      diff_col == [i \in 1..Len(cur) |-> Sub(cur[i], filled[i])]
  IN SetColumn(d1, value_col \o Diff6hrs, diff_col, TRUE)

DiffColumn(df, value_col) ==
  LET d1 == SetColumn(df, value_col,
                      [i \in 1..NRows(df) |-> ToNumeric(df.rows[i][value_col])],
                      TRUE)
      cur == Column(d1, value_col)
      shifted_col == Shift(cur, ShiftPeriods)
      filled == [i \in 1..Len(cur) |->
                   IF IsNull(shifted_col[i]) THEN cur[i] ELSE shifted_col[i]]
      diff_col == [i \in 1..Len(cur) |-> Sub(cur[i], filled[i])]
  IN SetColumn(d1, value_col \o Diff6hrs, diff_col, TRUE)

RECURSIVE DiffColumns(_, _)
DiffColumns(df, cs) ==
  IF cs = <<>> THEN df ELSE DiffColumns(DiffColumn(df, cs[1]), Tail(cs))

shift_and_calculate_diff_6_hours_ago(df) == DiffColumns(df, ValueColumns(df))

\* ((current - shifted) / shifted) * 100 in float arithmetic.
PercentChange(cur, sh) ==
  LET q == Div(Sub(cur, sh), sh)
  IN IF q.t = "inf" THEN q ELSE Mul(q, Num(100))

\* PctColumn with the shifted column's nulls filled by the row's own value,
\* as the difference pass does.
PctColumnFilled(df, value_col) ==
  LET cur == [i \in 1..NRows(df) |-> ToNumeric(df.rows[i][value_col])]
      shifted_col == Shift(cur, ShiftPeriods)
      filled == [i \in 1..Len(cur) |->
                   IF IsNull(shifted_col[i]) THEN cur[i] ELSE shifted_col[i]]
  IN SetColumn(SetColumn(df, value_col, cur, TRUE), value_col \o PercentChange6hrs,
               [i \in 1..Len(cur) |-> PercentChange(cur[i], filled[i])], TRUE)

PctColumn(df, value_col) ==
  LET d1 == SetColumn(df, value_col,
                      [i \in 1..NRows(df) |-> ToNumeric(df.rows[i][value_col])],
                      TRUE)
      cur == Column(d1, value_col)
      shifted_col == Shift(cur, ShiftPeriods)
      percentage_change_col ==
        [i \in 1..Len(cur) |-> PercentChange(cur[i], shifted_col[i])]
  IN SetColumn(d1, value_col \o PercentChange6hrs, percentage_change_col, TRUE)

RECURSIVE PctColumns(_, _)
PctColumns(df, cs) ==
  IF cs = <<>> THEN df ELSE PctColumns(PctColumn(df, cs[1]), Tail(cs))

calculate_particle_variation(df) == PctColumns(df, ValueColumns(df))

----------------------------------------------------------------------------
(* drop_unwanted_col_and_add_table_prefix                                  *)

\* PrefixedName with the prefix on the key columns too.
PrefixedNameAll(col, table_name) == table_name \o col

\* The new name of a column: the keys keep theirs, the others get the prefix.
PrefixedName(col, table_name) ==
  IF col \in KeyCols THEN col ELSE table_name \o col

RenameColumns(df, table_name) ==
  LET old(c) == CHOOSE o \in ColSet(df) : PrefixedName(o, table_name) = c
  IN [cols |-> [k \in 1..Len(df.cols) |-> PrefixedName(df.cols[k], table_name)],
      num |-> {PrefixedName(c, table_name) : c \in df.num},
      rows |-> [i \in 1..NRows(df) |->
                  [c \in {PrefixedName(o, table_name) : o \in ColSet(df)} |->
                     df.rows[i][old(c)]]]]

drop_unwanted_col_and_add_table_prefix(df, table_name) ==
  RenameColumns(DropColumns(df, {DateDeFin, Polluant}), table_name)

----------------------------------------------------------------------------
(* merge_dataframes: the fold of pd.merge(..., how='outer') on the keys.   *)

\* The site codes in use, in lexicographic order.
SiteOrder == <<"S1", "S2">>

SiteRank(s) == CHOOSE k \in 1..Len(SiteOrder) : SiteOrder[k] = s

KeyOf(row) == <<row[CodeSite], row[DateDeDebut]>>

KeyLess(k1, k2) ==
  \/ SiteRank(k1[1].s) < SiteRank(k2[1].s)
  \/ k1[1].s = k2[1].s /\ k1[2].n < k2[2].n

RowKeys(df) == {KeyOf(df.rows[i]) : i \in 1..NRows(df)}

\* An outer merge returns the union of the keys sorted lexicographically.
RECURSIVE SortKeys(_)
SortKeys(S) ==
  IF S = {} THEN <<>>
  ELSE LET m == CHOOSE k \in S : \A o \in S : ~KeyLess(o, k)
       IN <<m>> \o SortKeys(S \ {m})

\* The positions of the rows of df that carry key k, in row order.
RowsWithKey(df, k) ==
  SelectSeq([i \in 1..NRows(df) |-> i], LAMBDA i : KeyOf(df.rows[i]) = k)

\* The (left row, right row) pairs joined under key k; 0 stands for no row.
\* Several rows with one key on both sides give their cartesian product.
JoinPairs(left, right, k) ==
  LET ls == RowsWithKey(left, k)
      rs == RowsWithKey(right, k)
  IN IF rs = <<>> THEN [p \in 1..Len(ls) |-> <<ls[p], 0>>]
     ELSE IF ls = <<>> THEN [p \in 1..Len(rs) |-> <<0, rs[p]>>]
     ELSE [p \in 1..(Len(ls) * Len(rs)) |->
             <<ls[((p - 1) \div Len(rs)) + 1], rs[((p - 1) % Len(rs)) + 1]>>]

JoinRow(left, right, k, pair) ==
  [c \in ColSet(left) \cup ColSet(right) |->
     IF c = CodeSite THEN k[1]
     ELSE IF c = DateDeDebut THEN k[2]
     ELSE IF c \in ColSet(left)
          THEN (IF pair[1] = 0 THEN Null ELSE left.rows[pair[1]][c])
          ELSE (IF pair[2] = 0 THEN Null ELSE right.rows[pair[2]][c])]

RECURSIVE JoinRows(_, _, _)
JoinRows(left, right, keys) ==
  IF keys = <<>> THEN <<>>
  ELSE LET ps == JoinPairs(left, right, keys[1])
       IN [p \in 1..Len(ps) |-> JoinRow(left, right, keys[1], ps[p])]
          \o JoinRows(left, right, Tail(keys))

\* pd_merge with how='left': only the keys of the left frame.
pd_merge_left(left, right) ==
  [cols |-> left.cols \o SelectSeq(right.cols, LAMBDA c : c \notin KeyCols),
   num |-> left.num \cup right.num,
   rows |-> JoinRows(left, right, SortKeys(RowKeys(left)))]

\* pd_merge with how='right': only the keys of the right frame.
pd_merge_right(left, right) ==
  [cols |-> left.cols \o SelectSeq(right.cols, LAMBDA c : c \notin KeyCols),
   num |-> left.num \cup right.num,
   rows |-> JoinRows(left, right, SortKeys(RowKeys(right)))]

\* pd_merge as a concatenation: the rows of left, then the rows of right.
pd_merge_concat(left, right) ==
  [cols |-> left.cols \o SelectSeq(right.cols, LAMBDA c : c \notin KeyCols),
   num |-> left.num \cup right.num,
   rows |-> [p \in 1..(NRows(left) + NRows(right)) |->
               IF p <= NRows(left)
               THEN JoinRow(left, right, KeyOf(left.rows[p]), <<p, 0>>)
               ELSE JoinRow(left, right, KeyOf(right.rows[p - NRows(left)]),
                            <<0, p - NRows(left)>>)]]

\* The keys of df in the order of their first row.
FirstSeenKeys(df) ==
  LET first == SelectSeq([i \in 1..NRows(df) |-> i],
                         LAMBDA i : \A j \in 1..(i - 1) :
                                      KeyOf(df.rows[j]) # KeyOf(df.rows[i]))
  IN [k \in 1..Len(first) |-> KeyOf(df.rows[first[k]])]

\* pd_merge without the sort of the keys: the keys of left in their row order,
\* then the keys only right holds.
pd_merge_first_seen(left, right) ==
  [cols |-> left.cols \o SelectSeq(right.cols, LAMBDA c : c \notin KeyCols),
   num |-> left.num \cup right.num,
   rows |-> JoinRows(left, right,
                     FirstSeenKeys(left)
                       \o SelectSeq(FirstSeenKeys(right),
                                    LAMBDA k : k \notin RowKeys(left)))]

\* pd.merge(left, right, on=['code_site', 'date_de_debut'], how='outer') of two
\* frames that hold both key columns and share no other column name.
pd_merge(left, right) ==
  [cols |-> left.cols \o SelectSeq(right.cols, LAMBDA c : c \notin KeyCols),
   num |-> left.num \cup right.num,
   rows |-> JoinRows(left, right, SortKeys(RowKeys(left) \cup RowKeys(right)))]

RECURSIVE MergeFold(_, _)
MergeFold(merged, dfs) ==
  IF dfs = <<>> THEN merged ELSE MergeFold(pd_merge(merged, dfs[1]), Tail(dfs))

merge_dataframes(dfs) ==
  IF dfs = <<>> THEN EmptyDf ELSE MergeFold(dfs[1], Tail(dfs))

\* pd.merge raises KeyError when a frame lacks a column named in on=; the
\* fold calls it once there are two frames.
MergeRaises(dfs) ==
  /\ Len(dfs) >= 2
  /\ \E k \in 1..Len(dfs) : ~(KeyCols \subseteq ColSet(dfs[k]))

----------------------------------------------------------------------------
(* The staging store and load_table_to_dataframe.                          *)

\* The columns of a staging table that the curation passes read or drop, in
\* the order SELECT * returns them (the keys first, the others by name); the
\* schema's other text columns are carried through like type_de_valeur.
SourceCols ==
  <<CodeSite, DateDeDebut, DateDeFin, Polluant, TypeDeValeur, UniteDeMesure,
    Valeur, ValeurBrute>>

FloatCols == {Valeur, ValeurBrute}

\* pd.DataFrame(list(rows)): no row gives a frame without columns; a float
\* column is numeric unless every cell of it is None.
load_table_to_dataframe(rows) ==
  IF rows = <<>> THEN EmptyDf
  ELSE [cols |-> SelectSeq(SourceCols, LAMBDA c : c \in DOMAIN rows[1]),
        num |-> {c \in FloatCols : \E i \in 1..Len(rows) : ~IsNull(rows[i][c])},
        rows |-> rows]

\* DataFrame.empty
IsEmpty(df) == df.cols = <<>> \/ df.rows = <<>>

\* list_tables: system_schema.tables is read in the order of table_name.
TableOrder == <<<<"no2">>, <<"o3">>, <<"pm10">>>>

list_tables(st) == SelectSeq(TableOrder, LAMBDA t : t \in DOMAIN st)

\* The CSV rows handed to insert_data_into_cassandra and the number of them
\* it has executed; the curation stage reads no CSV.
NoCsv == [rows |-> <<>>, done |-> 0]

\* Python's None; a value that may be None is held as the set of the value.
None == {}

\* The curation stage lists no files and polls no API.
NoPar == [files |-> <<>>]

NoPoll == [file_id |-> None]

----------------------------------------------------------------------------
(* The stores a run of main() starts from.                                 *)

MaxTime == 3

MaxStoreRows == 3

Times == 1..MaxTime

\* What a staging row holds in valeur (v), valeur_brute (b) and
\* unite_de_mesure (u); convert_value stores an empty or unparseable CSV cell
\* as null.
Contents ==
  {[v |-> Num(1), b |-> Num(1), u |-> Str("mg-m3")],
   [v |-> Num(2), b |-> Null, u |-> Null],
   [v |-> Null, b |-> Num(2), u |-> Str("µg-m3")]}

SourceRow(table, h, c) ==
  [col \in {SourceCols[k] : k \in 1..Len(SourceCols)} |->
     CASE col = CodeSite -> Str("S1")
       [] col = DateDeDebut -> Date(h)
       [] col = DateDeFin -> Date(h + 1)
       [] col = Polluant -> Str(table[1])
       [] col = TypeDeValeur -> Str("moyenne horaire")
       [] col = UniteDeMesure -> c.u
       [] col = Valeur -> c.v
       [] col = ValeurBrute -> c.b]

\* The rows of one table as a SELECT reads them: PRIMARY KEY (code_site,
\* date_de_debut) leaves one row per key, CLUSTERING ORDER BY date_de_debut
\* ASC returns a site's rows by ascending date.
TableRows(table, slots, f) ==
  LET hs == SelectSeq([h \in 1..MaxTime |-> h], LAMBDA h : <<table, h>> \in slots)
  IN [k \in 1..Len(hs) |-> SourceRow(table, hs[k], f[<<table, hs[k]>>])]

GeneralTables == {<<"no2">>, <<"o3">>}

\* Any store over two tables with at most MaxStoreRows rows; a table may
\* exist without rows.
InitGeneral ==
  \E slots \in SUBSET (GeneralTables \X Times) :
    /\ Cardinality(slots) <= MaxStoreRows
    /\ \E f \in [slots -> Contents] :
         \E existing \in SUBSET GeneralTables :
           /\ {sl[1] : sl \in slots} \subseteq existing
           /\ store = [t \in existing |-> TableRows(t, slots, f)]

\* The three-table scenario: o3 and no2 hold rows for T1 = 1 and T2 = 2, pm10
\* holds a row for T1 only.
ScenarioTables == {<<"no2">>, <<"o3">>, <<"pm10">>}

ScenarioSlots ==
  {<<<<"o3">>, 1>>, <<<<"o3">>, 2>>, <<<<"no2">>, 1>>, <<<<"no2">>, 2>>,
   <<<<"pm10">>, 1>>}

InitScenario ==
  \E f \in [ScenarioSlots -> Contents] :
    store = [t \in ScenarioTables |-> TableRows(t, ScenarioSlots, f)]

\* An earlier version of the sink table.
OldCurated ==
  [cols |-> <<CodeSite, <<"old", "valeur">>>>,
   num |-> {<<"old", "valeur">>},
   rows |-> <<[c \in {CodeSite, <<"old", "valeur">>} |->
                 IF c = CodeSite THEN Str("S0") ELSE Num(7)]>>]

\* A keyspace that holds a table without the column code_site: o3 holds one
\* such row, no2 is a staging table with any rows, or is absent.
KeylessTable == <<"o3">>

InitKeyless ==
  \E c \in Contents :
    \E slots \in SUBSET ({<<"no2">>} \X Times) :
      \E f \in [slots -> Contents] :
        \E existing \in SUBSET {<<"no2">>} :
          /\ {sl[1] : sl \in slots} \subseteq existing
          /\ store = [t \in existing \cup {KeylessTable} |->
                       IF t = KeylessTable
                       THEN <<[col \in DOMAIN SourceRow(t, 1, c) \ {CodeSite} |->
                                 SourceRow(t, 1, c)[col]]>>
                       ELSE TableRows(t, slots, f)]

\* A keyspace whose tables hold rows of two sites. code_site is the partition
\* key: a SELECT returns the partitions in the order of their tokens, which is
\* the same in every table, and each partition by ascending date_de_debut.
Sites == {"S1", "S2"}

TokenOrders == {<<"S1", "S2">>, <<"S2", "S1">>}

SiteRow(table, site, h, c) ==
  [SourceRow(table, h, c) EXCEPT ![CodeSite] = Str(site)]

SiteContent == [v |-> Num(1), b |-> Num(1), u |-> Str("mg-m3")]

PartitionRows(table, site, slots) ==
  LET hs == SelectSeq([h \in 1..MaxTime |-> h],
                      LAMBDA h : <<table, site, h>> \in slots)
  IN [k \in 1..Len(hs) |-> SiteRow(table, site, hs[k], SiteContent)]

SiteTableRows(table, slots, order) ==
  PartitionRows(table, order[1], slots) \o PartitionRows(table, order[2], slots)

InitTwoSites ==
  \E slots \in SUBSET (GeneralTables \X Sites \X (Times \ {MaxTime})) :
    /\ slots # {}
    /\ Cardinality(slots) <= MaxStoreRows
    /\ \E order \in TokenOrders :
         store = [t \in {sl[1] : sl \in slots} |-> SiteTableRows(t, slots, order)]

Init ==
  /\ InitGeneral \/ InitScenario \/ InitKeyless \/ InitTwoSites
  /\ table_names = <<>>
  /\ pc = "start"
  /\ processed_dfs = <<>>
  /\ merged_df = EmptyDf
  /\ before = EmptyDf
  /\ log = <<>>
  /\ curated = OldCurated
  /\ runs = <<>>
  /\ data = NoCsv
  /\ par = NoPar
  /\ poll = NoPoll

----------------------------------------------------------------------------
(* main(): one action per step; pc names the step that comes next, log the *)
(* steps taken and the messages printed on an early return, before the     *)
(* wide table as it was before the last pass, runs the sink table as each  *)
(* ended run left it.                                                      *)

ListTables ==
  /\ pc = "start"
  /\ table_names' = list_tables(store)
  /\ IF list_tables(store) = <<>>
     THEN /\ pc' = "done"
          /\ log' = log \o <<"list", "no tables">>
          /\ runs' = Append(runs, curated)
     ELSE /\ pc' = "load"
          /\ log' = Append(log, "list")
          /\ runs' = runs
  /\ UNCHANGED <<store, processed_dfs, merged_df, before, curated, data,
                 par, poll>>

\* LoadTable with a break in place of the continue: an empty table ends the
\* loop.
LoadTableStopAtEmpty ==
  /\ pc = "load"
  /\ table_names # <<>>
  /\ LET table == Head(table_names)
         df == load_table_to_dataframe(store[table])
         df_processed == drop_unwanted_col_and_add_table_prefix(df, table)
     IN IF IsEmpty(df) \/ IsEmpty(df_processed)
        THEN processed_dfs' = processed_dfs /\ table_names' = <<>>
        ELSE processed_dfs' = Append(processed_dfs, df_processed)
             /\ table_names' = Tail(table_names)
  /\ log' = Append(log, "load")
  /\ UNCHANGED <<store, pc, merged_df, before, curated, runs, data,
                 par, poll>>

\* One turn of the loop over table_names.
LoadTable ==
  /\ pc = "load"
  /\ table_names # <<>>
  /\ LET table == Head(table_names)
         df == load_table_to_dataframe(store[table])
         df_processed == drop_unwanted_col_and_add_table_prefix(df, table)
     IN processed_dfs' =
          IF IsEmpty(df) \/ IsEmpty(df_processed) THEN processed_dfs
          ELSE Append(processed_dfs, df_processed)
  /\ table_names' = Tail(table_names)
  /\ log' = Append(log, "load")
  /\ UNCHANGED <<store, pc, merged_df, before, curated, runs, data,
                 par, poll>>

\* NoData without the early return: the empty result of the merge is written
\* to the sink.
NoDataWritesEmpty ==
  /\ pc = "load"
  /\ table_names = <<>>
  /\ processed_dfs = <<>>
  /\ pc' = "done"
  /\ log' = Append(log, "no data")
  /\ curated' = merge_dataframes(processed_dfs)
  /\ runs' = Append(runs, curated')
  /\ UNCHANGED <<store, table_names, processed_dfs, merged_df, before, data,
                 par, poll>>

NoData ==
  /\ pc = "load"
  /\ table_names = <<>>
  /\ processed_dfs = <<>>
  /\ pc' = "done"
  /\ log' = Append(log, "no data")
  /\ runs' = Append(runs, curated)
  /\ UNCHANGED <<store, table_names, processed_dfs, merged_df, before, curated, data,
                 par, poll>>

\* Merge with the unit conversion as the pass that follows, the null-fill
\* left out.
MergeThenConvert ==
  /\ pc = "load"
  /\ table_names = <<>>
  /\ processed_dfs # <<>>
  /\ ~MergeRaises(processed_dfs)
  /\ merged_df' = merge_dataframes(processed_dfs)
  /\ before' = merged_df
  /\ pc' = "convert"
  /\ log' = Append(log, "merge")
  /\ UNCHANGED <<store, table_names, processed_dfs, curated, runs, data,
                 par, poll>>

\* merged_df = merge_dataframes(processed_dfs); a KeyError of pd.merge is
\* caught nowhere and ends the run.
Merge ==
  /\ pc = "load"
  /\ table_names = <<>>
  /\ processed_dfs # <<>>
  /\ IF MergeRaises(processed_dfs)
     THEN /\ pc' = "error"
          /\ log' = Append(log, "KeyError")
          /\ runs' = Append(runs, curated)
          /\ UNCHANGED <<merged_df, before>>
     ELSE /\ merged_df' = merge_dataframes(processed_dfs)
          /\ before' = merged_df
          /\ pc' = "fill"
          /\ log' = Append(log, "merge")
          /\ runs' = runs
  /\ UNCHANGED <<store, table_names, processed_dfs, curated, data,
                 par, poll>>

\* A feature pass: merged_df = pass(merged_df).
Fill ==
  /\ pc = "fill"
  /\ merged_df' = replace_null_values_by_mean(merged_df)
  /\ before' = merged_df
  /\ pc' = "convert"
  /\ log' = Append(log, "fill")
  /\ UNCHANGED <<store, table_names, processed_dfs, curated, runs, data,
                 par, poll>>

Convert ==
  /\ pc = "convert"
  /\ merged_df' = convert_units(merged_df)
  /\ before' = merged_df
  /\ pc' = "aggregate"
  /\ log' = Append(log, "convert")
  /\ UNCHANGED <<store, table_names, processed_dfs, curated, runs, data,
                 par, poll>>

Aggregate ==
  /\ pc = "aggregate"
  /\ merged_df' = aggregate_valeurs(merged_df)
  /\ before' = merged_df
  /\ pc' = "diff"
  /\ log' = Append(log, "aggregate")
  /\ UNCHANGED <<store, table_names, processed_dfs, curated, runs, data,
                 par, poll>>

Diff ==
  /\ pc = "diff"
  /\ merged_df' = shift_and_calculate_diff_6_hours_ago(merged_df)
  /\ before' = merged_df
  /\ pc' = "pct"
  /\ log' = Append(log, "diff")
  /\ UNCHANGED <<store, table_names, processed_dfs, curated, runs, data,
                 par, poll>>

Pct ==
  /\ pc = "pct"
  /\ merged_df' = calculate_particle_variation(merged_df)
  /\ before' = merged_df
  /\ pc' = "sink"
  /\ log' = Append(log, "pct")
  /\ UNCHANGED <<store, table_names, processed_dfs, curated, runs, data,
                 par, poll>>

\* The loop of main() over the table names: the normalized frames of the
\* tables that hold rows, in the order of the names.
RECURSIVE NormalizeAll(_, _)
NormalizeAll(st, names) ==
  IF names = <<>> THEN <<>>
  ELSE LET df == load_table_to_dataframe(st[names[1]])
       IN (IF IsEmpty(df) THEN <<>>
           ELSE <<drop_unwanted_col_and_add_table_prefix(df, names[1])>>)
          \o NormalizeAll(st, Tail(names))

\* The feature passes of main() in their order, applied to the merge of dfs.
Curate(dfs) ==
  calculate_particle_variation(
    shift_and_calculate_diff_6_hours_ago(
      aggregate_valeurs(
        convert_units(
          replace_null_values_by_mean(
            merge_dataframes(dfs))))))

\* A write that keeps the columns of the table that exists (the rows are
\* replaced).
ingest_keeping_columns(existing, df) ==
  LET kept == SelectSeq(existing.cols, LAMBDA c : c \notin ColSet(df))
  IN [cols |-> df.cols \o kept,
      num |-> df.num \cup {c \in existing.num : c \notin ColSet(df)},
      rows |-> [i \in 1..NRows(df) |->
                  [c \in ColSet(df) \cup ColSet(existing) |->
                     IF c \in ColSet(df) THEN df.rows[i][c] ELSE Null]]]

\* A write with if_exists='append': the rows are added below those of the
\* table that exists.
ingest_appending(existing, df) ==
  LET added == SelectSeq(df.cols, LAMBDA c : c \notin ColSet(existing))
      all == ColSet(df) \cup ColSet(existing)
  IN [cols |-> existing.cols \o added,
      num |-> existing.num \cup df.num,
      rows |-> [i \in 1..NRows(existing) |->
                  [c \in all |-> IF c \in ColSet(existing)
                                  THEN existing.rows[i][c] ELSE Null]]
               \o [i \in 1..NRows(df) |->
                     [c \in all |-> IF c \in ColSet(df) THEN df.rows[i][c] ELSE Null]]]

\* df.to_sql("curated", engine, if_exists='replace', index=False): the table
\* that exists is dropped and created again from df.
ingest_dataframe_to_postgres(existing, df) == df

Sink ==
  /\ pc = "sink"
  /\ curated' = ingest_dataframe_to_postgres(curated, merged_df)
  /\ pc' = "done"
  /\ log' = Append(log, "sink")
  /\ runs' = Append(runs, curated')
  /\ UNCHANGED <<store, table_names, processed_dfs, merged_df, before, data,
                 par, poll>>

\* The next scheduled run of main() over the same store: the locals are new,
\* the sink table is what the run before left.
MaxRuns == 2

Rerun ==
  /\ pc \in {"done", "error"}
  /\ Len(runs) < MaxRuns
  /\ pc' = "start"
  /\ table_names' = <<>>
  /\ processed_dfs' = <<>>
  /\ merged_df' = EmptyDf
  /\ before' = EmptyDf
  /\ log' = <<>>
  /\ UNCHANGED <<store, curated, runs, data,
                 par, poll>>

Next ==
  \/ ListTables
  \/ LoadTable
  \/ NoData
  \/ Merge
  \/ Fill
  \/ Convert
  \/ Aggregate
  \/ Diff
  \/ Pct
  \/ Sink
  \/ Rerun

Spec == Init /\ [][Next]_vars

----------------------------------------------------------------------------
(* The passes as functions of their argument: SpecFn draws an argument and  *)
(* applies one pass to it (aggregate_valeurs to what convert_units returns).*)
(* pc says what kind of argument the state holds, log the passes applied;   *)
(* processed_dfs is the argument of merge_dataframes, before the argument   *)
(* of a feature pass, merged_df the result.                                 *)

MaxDfRows == 2

MaxWideRows == 3

MaxSeriesRows == 8

O3 == <<"o3">>

NO2 == <<"no2">>

PM10 == <<"pm10">>

\* Lists of normalized datasets: each of a table of its own, with one to
\* MaxDfRows rows in any order, one key possibly on several rows; the valeur
\* cell of a row is its position in its dataset.
MergeKeys == {<<"S1", 1>>, <<"S1", 2>>, <<"S2", 1>>}

MergeTableLists ==
  {<<O3>>, <<NO2>>, <<O3, NO2>>, <<NO2, O3>>, <<PM10, O3, NO2>>}

NormalizedCols(table) == <<CodeSite, DateDeDebut, table \o UniteDeMesure, table \o Valeur>>

NormalizedDf(table, keys) ==
  [cols |-> NormalizedCols(table),
   num |-> {table \o Valeur},
   rows |-> [p \in 1..Len(keys) |->
               [c \in {CodeSite, DateDeDebut, table \o UniteDeMesure, table \o Valeur} |->
                  CASE c = CodeSite -> Str(keys[p][1])
                    [] c = DateDeDebut -> Date(keys[p][2])
                    [] c = table \o UniteDeMesure -> Str("mg-m3")
                    [] OTHER -> Num(p)]]]

KeySeqs == UNION {[1..n -> MergeKeys] : n \in 1..MaxDfRows}

InitMergeArgs ==
  /\ \E tl \in MergeTableLists :
       \E ks \in [1..Len(tl) -> KeySeqs] :
         processed_dfs = [k \in 1..Len(tl) |-> NormalizedDf(tl[k], ks[k])]
  /\ before = EmptyDf
  /\ pc = "fn_merge"

\* Wide tables of one to MaxWideRows rows: the o3 columns vary row by row,
\* the no2 columns (no valeur_brute) are fixed, with a null valeur in row 2.
WideUnits == {Null, Str("mg-m3"), Str("µg-m3"), Str("Âµg-m3")}

WideValeurs == {Null, Num(1), Num(2)}

WideBrute(v) == IF v = Num(1) THEN Null ELSE Num(3)

WideCols ==
  <<CodeSite, DateDeDebut, O3 \o TypeDeValeur, O3 \o UniteDeMesure, O3 \o Valeur,
    O3 \o ValeurBrute, NO2 \o UniteDeMesure, NO2 \o Valeur>>

WideRow(i, u, v) ==
  [c \in {WideCols[k] : k \in 1..Len(WideCols)} |->
     CASE c = CodeSite -> Str("S1")
       [] c = DateDeDebut -> Date(i)
       [] c = O3 \o TypeDeValeur -> Str("moyenne horaire")
       [] c = O3 \o UniteDeMesure -> u
       [] c = O3 \o Valeur -> v
       [] c = O3 \o ValeurBrute -> WideBrute(v)
       [] c = NO2 \o UniteDeMesure -> Str("ng-m3")
       [] c = NO2 \o Valeur -> IF i = 2 THEN Null ELSE Num(4 + i)]

InitWide ==
  /\ \E n \in 1..MaxWideRows :
       \E us \in [1..n -> WideUnits] :
         \E vs \in [1..n -> WideValeurs] :
           before = [cols |-> WideCols,
                     num |-> {O3 \o Valeur, O3 \o ValeurBrute, NO2 \o Valeur},
                     rows |-> [i \in 1..n |-> WideRow(i, us[i], vs[i])]]
  /\ processed_dfs = <<>>
  /\ pc = "fn_wide"

\* Long tables for the lag passes: one measured series o3_valeur that varies,
\* and a total that is never null; the first four rows are of site S1, the
\* others of site S2.
SeriesValeurs == {Null, Num(0), Num(1)}

SeriesCols ==
  <<CodeSite, DateDeDebut, O3 \o TypeDeValeur, O3 \o Valeur, O3 \o ValeurBrute, Total>>

SeriesRow(i, v) ==
  [c \in {SeriesCols[k] : k \in 1..Len(SeriesCols)} |->
     CASE c = CodeSite -> Str(IF i <= 4 THEN "S1" ELSE "S2")
       [] c = DateDeDebut -> Date(i)
       [] c = O3 \o TypeDeValeur -> Str("moyenne horaire")
       [] c = O3 \o Valeur -> v
       [] c = O3 \o ValeurBrute -> Num(3)
       [] c = Total -> Rat(i * i, 1000)]

InitSeries ==
  /\ \E n \in 1..MaxSeriesRows :
       \E vs \in [1..n -> SeriesValeurs] :
         before = [cols |-> SeriesCols,
                   num |-> {O3 \o Valeur, O3 \o ValeurBrute, Total},
                   rows |-> [i \in 1..n |-> SeriesRow(i, vs[i])]]
  /\ processed_dfs = <<>>
  /\ pc = "fn_series"

\* The arguments of drop_unwanted_col_and_add_table_prefix: a loaded table of
\* up to MaxDfRows rows, with or without the two columns that are dropped,
\* and the table names it is normalized under.
NoxAsNo2 == <<"nox", "as", "no2">>

NameLists == {<<O3>>, <<NO2, O3>>, <<NO2, NoxAsNo2>>}

InitSource ==
  /\ \E n \in 1..MaxDfRows :
       \E cs \in [1..n -> Contents] :
         \E absent \in SUBSET {DateDeFin, Polluant} :
           LET df == load_table_to_dataframe([h \in 1..n |-> SourceRow(O3, h, cs[h])])
           IN before = DropColumns(df, absent)
  /\ table_names \in NameLists
  /\ processed_dfs = <<>>
  /\ pc = "fn_source"

InitFn ==
  /\ \/ (InitMergeArgs \/ InitWide \/ InitSeries) /\ table_names = <<>>
     \/ InitSource
  /\ store = <<>>
  /\ merged_df = EmptyDf
  /\ log = <<>>
  /\ curated = EmptyDf
  /\ runs = <<>>
  /\ data = NoCsv
  /\ par = NoPar
  /\ poll = NoPoll

FnMerge ==
  /\ pc = "fn_merge"
  /\ merged_df' = merge_dataframes(processed_dfs)
  /\ pc' = "fn_done"
  /\ log' = <<"merge">>
  /\ UNCHANGED <<store, table_names, processed_dfs, before, curated, runs, data,
                 par, poll>>

FnFill ==
  /\ pc = "fn_wide"
  /\ merged_df' = replace_null_values_by_mean(before)
  /\ pc' = "fn_done"
  /\ log' = <<"fill">>
  /\ UNCHANGED <<store, table_names, processed_dfs, before, curated, runs, data,
                 par, poll>>

FnConvert ==
  /\ pc = "fn_wide"
  /\ merged_df' = convert_units(before)
  /\ pc' = "fn_done"
  /\ log' = <<"convert">>
  /\ UNCHANGED <<store, table_names, processed_dfs, before, curated, runs, data,
                 par, poll>>

FnAggregate ==
  /\ pc = "fn_done"
  /\ log = <<"convert">>
  /\ merged_df' = aggregate_valeurs(merged_df)
  /\ before' = merged_df
  /\ log' = <<"convert", "aggregate">>
  /\ UNCHANGED <<store, table_names, pc, processed_dfs, curated, runs, data,
                 par, poll>>

FnDiff ==
  /\ pc = "fn_series"
  /\ merged_df' = shift_and_calculate_diff_6_hours_ago(before)
  /\ pc' = "fn_done"
  /\ log' = <<"diff">>
  /\ UNCHANGED <<store, table_names, processed_dfs, before, curated, runs, data,
                 par, poll>>

FnPct ==
  /\ pc = "fn_series"
  /\ merged_df' = calculate_particle_variation(before)
  /\ pc' = "fn_done"
  /\ log' = <<"pct">>
  /\ UNCHANGED <<store, table_names, processed_dfs, before, curated, runs, data,
                 par, poll>>

\* The normalizer applied to the argument under each name of table_names.
FnNormalize ==
  /\ pc = "fn_source"
  /\ processed_dfs' = [k \in 1..Len(table_names) |->
                         drop_unwanted_col_and_add_table_prefix(before, table_names[k])]
  /\ pc' = "fn_done"
  /\ log' = <<"normalize">>
  /\ UNCHANGED <<store, table_names, merged_df, before, curated, runs, data,
                 par, poll>>

\* calculate_particle_variation applied to what
\* shift_and_calculate_diff_6_hours_ago returns, as main() does.
FnPctAfterDiff ==
  /\ pc = "fn_done"
  /\ log = <<"diff">>
  /\ merged_df' = calculate_particle_variation(merged_df)
  /\ before' = merged_df
  /\ log' = <<"diff", "pct">>
  /\ UNCHANGED <<store, table_names, pc, processed_dfs, curated, runs, data,
                 par, poll>>

NextFn ==
  \/ FnMerge
  \/ FnFill
  \/ FnConvert
  \/ FnAggregate
  \/ FnDiff
  \/ FnPct
  \/ FnPctAfterDiff
  \/ FnNormalize

SpecFn == InitFn /\ [][NextFn]_vars

----------------------------------------------------------------------------
(* Properties of merge_dataframes.                                         *)

MergeDone == pc = "fn_done" /\ log = <<"merge">>

NonKeyCols(df) == ColSet(df) \ KeyCols

UniqueKeys(df) ==
  \A i, j \in 1..NRows(df) : KeyOf(df.rows[i]) = KeyOf(df.rows[j]) => i = j

\* Row orow of the output carries the non-key cells of row irow of input df.
Carries(orow, df, irow) ==
  /\ KeyOf(orow) = KeyOf(irow)
  /\ \A c \in NonKeyCols(df) : orow[c] = irow[c]

\* C1: merge_dataframes is key-complete.  Every key of every input is a key of
\* the output and every input row is carried by an output row; an output row
\* carries, for each input that has its key, the non-key cells of a row of
\* that input with that key, and holds null in the columns of each input that
\* lacks its key.
C1_KeyComplete ==
  MergeDone =>
    /\ ColSet(merged_df) = UNION {ColSet(processed_dfs[k]) : k \in 1..Len(processed_dfs)}
    /\ \A k \in 1..Len(processed_dfs) :
         LET df == processed_dfs[k]
         IN /\ \A j \in 1..NRows(df) :
                 \E i \in 1..NRows(merged_df) : Carries(merged_df.rows[i], df, df.rows[j])
            /\ \A i \in 1..NRows(merged_df) :
                 IF KeyOf(merged_df.rows[i]) \in RowKeys(df)
                 THEN \E j \in 1..NRows(df) : Carries(merged_df.rows[i], df, df.rows[j])
                 ELSE \A c \in NonKeyCols(df) : IsNull(merged_df.rows[i][c])

\* Three datasets merged, with a key that all of them hold and a key that one
\* of them lacks.
C1_Witness ==
  /\ MergeDone
  /\ Len(processed_dfs) = 3
  /\ \E key \in RowKeys(merged_df) : \A k \in 1..3 : key \in RowKeys(processed_dfs[k])
  /\ \E key \in RowKeys(merged_df) : \E k \in 1..3 : key \notin RowKeys(processed_dfs[k])

\* C2 as stated: whatever the inputs, also inputs that hold several rows for
\* one key, no two rows of the output of merge_dataframes have the same
\* (code_site, date_de_debut).
C2_UniqueForAllInputs == MergeDone => UniqueKeys(merged_df)

\* C2 amended: when no input dataset holds two rows for one key (what the
\* staging PRIMARY KEY (code_site, date_de_debut) gives every loaded table), no
\* two rows of the output of merge_dataframes have the same key.
C2_UniqueForUniqueInputs ==
  (MergeDone /\ \A k \in 1..Len(processed_dfs) : UniqueKeys(processed_dfs[k]))
    => UniqueKeys(merged_df)

\* Two or more datasets without repeated keys that share a key, merged into
\* more than one row.
C2_Witness ==
  /\ MergeDone
  /\ Len(processed_dfs) >= 2
  /\ \A k \in 1..Len(processed_dfs) : UniqueKeys(processed_dfs[k])
  /\ RowKeys(processed_dfs[1]) \cap RowKeys(processed_dfs[2]) # {}
  /\ NRows(merged_df) >= 2

----------------------------------------------------------------------------
(* Properties of the feature passes as functions.                          *)

FillDone == pc = "fn_done" /\ log = <<"fill">>

ConvDone == pc = "fn_done" /\ log = <<"convert">>

AggDone == pc = "fn_done" /\ log = <<"convert", "aggregate">>

DiffDone == pc = "fn_done" /\ log = <<"diff">>

SameShape(a, b) == a.cols = b.cols /\ NRows(a) = NRows(b)

\* Column col holds the same cells in a and in b.
SameColumn(a, b, col) ==
  /\ NRows(a) = NRows(b)
  /\ \A i \in 1..NRows(a) : a.rows[i][col] = b.rows[i][col]

\* The sum of the cells of row in the columns S, a null cell counted as 0.
RECURSIVE SumNullAsZero(_, _)
SumNullAsZero(row, S) ==
  IF S = {} THEN Num(0)
  ELSE LET c == CHOOSE x \in S : TRUE
       IN Add(IF IsNull(row[c]) THEN Num(0) ELSE row[c], SumNullAsZero(row, S \ {c}))

Contributing(df) ==
  {c \in ColSet(df) : EndsWith(c, Valeur \o GParL) \/ EndsWith(c, ValeurBrute \o GParL)}

\* C4: aggregate_valeurs sets total_valeur_particule_g_par_L, in every row, to
\* the sum of the row's cells in the columns ending in _valeur_g_par_L or
\* _valeur_brute_g_par_L with a null cell counted as 0, so to 0 (not null) in a
\* row whose contributing cells are all null, and changes no other column.
C4_TotalIsSumOfNonNull ==
  AggDone =>
    /\ NRows(merged_df) = NRows(before)
    /\ ColSet(merged_df) = ColSet(before) \cup {Total}
    /\ \A i \in 1..NRows(before) :
         /\ merged_df.rows[i][Total] = SumNullAsZero(before.rows[i], Contributing(before))
         /\ (\A c \in Contributing(before) : IsNull(before.rows[i][c]))
              => merged_df.rows[i][Total] = Num(0)
    /\ \A c \in ColSet(before) \ {Total} : SameColumn(merged_df, before, c)

\* A table with a row whose contributing cells are all null and a row that
\* holds both a null and a non-null contributing cell.
C4_Witness ==
  /\ AggDone
  /\ Contributing(before) # {}
  /\ \E i \in 1..NRows(before) : \A c \in Contributing(before) : IsNull(before.rows[i][c])
  /\ \E i \in 1..NRows(before) :
       /\ \E c \in Contributing(before) : IsNull(before.rows[i][c])
       /\ \E c \in Contributing(before) :
            ~IsNull(before.rows[i][c]) /\ before.rows[i][c] # Num(0)

AllNull(df, col) == \A i \in 1..NRows(df) : IsNull(df.rows[i][col])

\* C5: replace_null_values_by_mean changes no cell that was non-null, in any
\* column, and leaves every cell of a numeric column null when all its cells
\* were null.
C5_FillKeepsNonNull ==
  FillDone =>
    /\ SameShape(merged_df, before)
    /\ \A c \in ColSet(before) : \A i \in 1..NRows(before) :
         ~IsNull(before.rows[i][c]) => merged_df.rows[i][c] = before.rows[i][c]
    /\ \A c \in before.num : AllNull(before, c) => AllNull(merged_df, c)

\* A table with a numeric column that is all null and a numeric column that
\* holds a null cell beside two different non-null cells.
C5_Witness ==
  /\ FillDone
  /\ \E c \in before.num : AllNull(before, c)
  /\ \E c \in before.num : \E i, j, k \in 1..NRows(before) :
       /\ IsNull(before.rows[i][c])
       /\ ~IsNull(before.rows[j][c])
       /\ ~IsNull(before.rows[k][c])
       /\ before.rows[j][c] # before.rows[k][c]
       /\ ~IsNull(merged_df.rows[i][c])

\* What the claims take the factor table to be.
ClaimedFactor(u) ==
  CASE u = Str("mg-m3") -> Rat(1, 1000)
    [] u = Str("µg-m3") -> Rat(1, 1000000)
    [] u = Str("ng-m3") -> Rat(1, 1000000000)
    [] OTHER -> Null

ClaimedUnits == {Str("mg-m3"), Str("µg-m3"), Str("ng-m3")}

UnitColSet(df) == {c \in ColSet(df) : EndsWith(c, UniteDeMesure)}

ValueColsOf(df, unit_column) ==
  {StripSuffix(unit_column, UniteDeMesure) \o sfx : sfx \in {Valeur, ValeurBrute}}
    \cap ColSet(df)

\* C7 as stated: for every column <p>_unite_de_mesure and each of <p>_valeur and
\* <p>_valeur_brute that exists, convert_units adds the column <..>_g_par_L whose
\* cell is the row's value times the factor of the row's resolved unit, 1e-3 for
\* mg-m3, 1e-6 for µg-m3 and 1e-9 for ng-m3; the value columns are unchanged and
\* no conversion-factor column remains.
C7_LinearWithCanonicalFactors ==
  ConvDone =>
    /\ NRows(merged_df) = NRows(before)
    /\ \A c \in ColSet(merged_df) : ~EndsWith(c, ConversionFactor)
    /\ \A uc \in UnitColSet(before) : \A vc \in ValueColsOf(before, uc) :
         /\ SameColumn(merged_df, before, vc)
         /\ (vc \o GParL) \in ColSet(merged_df)
         /\ \A i \in 1..NRows(before) :
              merged_df.rows[i][uc] \in ClaimedUnits
                => merged_df.rows[i][vc \o GParL]
                     = Mul(before.rows[i][vc], ClaimedFactor(merged_df.rows[i][uc]))

NearestAbove(cs, i) ==
  IF {j \in 1..(i - 1) : ~IsNull(cs[j])} = {} THEN Null
  ELSE cs[Max({j \in 1..(i - 1) : ~IsNull(cs[j])})]

NearestBelow(cs, i) ==
  IF {j \in (i + 1)..Len(cs) : ~IsNull(cs[j])} = {} THEN Null
  ELSE cs[Min({j \in (i + 1)..Len(cs) : ~IsNull(cs[j])})]

\* The unit cells of convert_units' result are the argument's, a null cell
\* replaced by the nearest non-null one above it or else below it.
UnitsResolved ==
  ConvDone =>
    \A uc \in UnitColSet(before) :
      LET cs == Column(before, uc)
      IN /\ \A i \in 1..Len(cs) :
              merged_df.rows[i][uc] =
                IF ~IsNull(cs[i]) THEN cs[i]
                ELSE IF ~IsNull(NearestAbove(cs, i)) THEN NearestAbove(cs, i)
                ELSE NearestBelow(cs, i)
         /\ ~AllNull(before, uc) => \A i \in 1..Len(cs) : ~IsNull(merged_df.rows[i][uc])

\* C8 as stated: convert_units fills a null unit cell with the nearest non-null
\* unit above it or, when there is none, below it, so that a unit column with
\* a non-null cell has no null cell afterwards; for the unit column
\* [µg-m3, null, null] all three rows resolve to µg-m3 and the factor 1e-6 is
\* applied to all three rows.
C8_FillThenFactor ==
  /\ UnitsResolved
  /\ (ConvDone /\ Column(before, O3 \o UniteDeMesure) = <<Str("µg-m3"), Null, Null>>)
       => \A i \in 1..3 :
            /\ merged_df.rows[i][O3 \o UniteDeMesure] = Str("µg-m3")
            /\ merged_df.rows[i][O3 \o Valeur \o GParL]
                 = Mul(before.rows[i][O3 \o Valeur], Rat(1, 1000000))

Processed(df) ==
  {c \in ColSet(df) : (EndsWith(c, Valeur) /\ ~EndsWith(c, TypeDeValeur)) \/ c = Total}

\* Row i is one of the first 6 rows, or the cell 6 rows above it is null.
NoEarlierValue(df, col, i) == i <= 6 \/ IsNull(df.rows[i - 6][col])

----------------------------------------------------------------------------
(* Properties of a run of main().                                          *)

TimesOf(table) == {store[table][i][DateDeDebut].n : i \in 1..Len(store[table])}

\* The store of the scenario: o3 and no2 with rows for T1 and T2, pm10 with a
\* row for T1 only.
Scenario ==
  /\ DOMAIN store = ScenarioTables
  /\ TimesOf(O3) = {1, 2}
  /\ TimesOf(NO2) = {1, 2}
  /\ TimesOf(PM10) = {1}

RowAt(df, h) == df.rows[CHOOSE i \in 1..NRows(df) : df.rows[i][DateDeDebut] = Date(h)]

Aggregated == pc \in {"diff", "pct", "sink", "done"}

ConvertedCols(tables) ==
  {t \o sfx \o GParL : t \in tables, sfx \in {Valeur, ValeurBrute}}

\* C3 as stated: in the scenario the merged table has exactly 2 rows with a
\* null pm10_valeur at T2, and the total of the T2 row holds no pm10
\* contribution: it is the sum of the row's no2 and o3 values only.
C3_TotalExcludesPm10 ==
  Scenario =>
    /\ pc = "fill" => /\ NRows(merged_df) = 2
                      /\ IsNull(RowAt(merged_df, 2)[PM10 \o Valeur])
    /\ Aggregated =>
         RowAt(merged_df, 2)[Total]
           = SumNullAsZero(RowAt(merged_df, 2), ConvertedCols({O3, NO2}))

\* C3 amended: in the scenario the merged table has exactly 2 rows with a null
\* pm10_valeur at T2; the null-fill pass then sets pm10_valeur and
\* pm10_valeur_brute at T2 to the column mean, which is pm10's value at T1, the
\* unit of T1 is carried to T2, and the total of the T2 row is the sum of the
\* row's no2, o3 and pm10 converted values, the pm10 ones being T1's value
\* times the factor of T1's unit.
C3_TotalIncludesImputedPm10 ==
  Scenario =>
    /\ pc = "fill" => /\ NRows(merged_df) = 2
                      /\ IsNull(RowAt(merged_df, 2)[PM10 \o Valeur])
    /\ Aggregated =>
         LET r2 == RowAt(merged_df, 2)
             src == store[PM10][1]
         IN /\ NRows(merged_df) = 2
            /\ r2[PM10 \o Valeur] = src[Valeur]
            /\ r2[PM10 \o ValeurBrute] = src[ValeurBrute]
            /\ r2[PM10 \o UniteDeMesure] = src[UniteDeMesure]
            /\ r2[PM10 \o Valeur \o GParL] = Mul(src[Valeur], MapFactor(src[UniteDeMesure]))
            /\ r2[PM10 \o ValeurBrute \o GParL]
                 = Mul(src[ValeurBrute], MapFactor(src[UniteDeMesure]))
            /\ r2[Total] = SumNullAsZero(r2, ConvertedCols({O3, NO2, PM10}))

\* A finished run of the scenario whose T2 total holds a pm10 contribution.
C3_Witness ==
  /\ Scenario
  /\ pc = "done"
  /\ curated = merged_df
  /\ ~IsNull(RowAt(merged_df, 2)[PM10 \o Valeur \o GParL])
  /\ RowAt(merged_df, 2)[Total]
       # SumNullAsZero(RowAt(merged_df, 2), ConvertedCols({O3, NO2}))

Count(seq, x) == Cardinality({k \in 1..Len(seq) : seq[k] = x})

Derived(col) ==
  \/ EndsWith(col, GParL)
  \/ col = Total
  \/ EndsWith(col, Diff6hrs)
  \/ EndsWith(col, PercentChange6hrs)

\* The arithmetic mean of the non-null cells of column col of df.
RECURSIVE SumAt(_, _, _)
SumAt(df, col, S) ==
  IF S = {} THEN Num(0)
  ELSE LET i == CHOOSE x \in S : TRUE
       IN Add(df.rows[i][col], SumAt(df, col, S \ {i}))

MeanOfNonNull(df, col) ==
  LET S == {i \in 1..NRows(df) : ~IsNull(df.rows[i][col])}
  IN Div(SumAt(df, col, S), Num(Cardinality(S)))

\* C6: in a run the null-fill pass runs at most once, right after the merge,
\* on a table without derived columns, and it replaces every null cell of
\* every numeric column of the merged table by the mean of the cells of that
\* column that are non-null in the merged table; a run that goes on to the
\* later passes has run it.
C6_FillOnceFromMergedMeans ==
  /\ Count(log, "fill") <= 1
  /\ \A k \in 1..Len(log) : log[k] = "fill" => k > 1 /\ log[k - 1] = "merge"
  /\ pc \in {"convert", "aggregate", "diff", "pct", "sink"} => Count(log, "fill") = 1
  /\ \A k \in 1..Len(log) :
       log[k] \in {"convert", "aggregate", "diff", "pct", "sink"} =>
         \E j \in 1..(k - 1) : log[j] = "fill"
  /\ pc = "fill" => \A c \in ColSet(merged_df) : ~Derived(c)
  /\ pc = "convert" =>
       /\ SameShape(merged_df, before)
       /\ \A c \in ColSet(before) : ~Derived(c)
       /\ \A c \in before.num : \A i \in 1..NRows(before) :
            IsNull(before.rows[i][c]) => merged_df.rows[i][c] = MeanOfNonNull(before, c)

\* A merged table with a numeric column that holds a null cell beside two
\* different values, just filled.
C6_Witness ==
  /\ pc = "convert"
  /\ \E c \in before.num : \E i, j, k \in 1..NRows(before) :
       /\ IsNull(before.rows[i][c])
       /\ before.rows[j][c] = Num(1)
       /\ before.rows[k][c] = Num(2)
       /\ merged_df.rows[i][c] = Rat(3, 2)

----------------------------------------------------------------------------
(* Properties of calculate_particle_variation.                             *)

PctDone == pc = "fn_done" /\ log \in {<<"pct">>, <<"diff", "pct">>}

PctAfterDiffDone == pc = "fn_done" /\ log = <<"diff", "pct">>

\* The columns for which df holds a column <col><suffix>.
ColsWith(df, suffix) == {c \in ColSet(df) : c \o suffix \in ColSet(df)}

\* C11: calculate_particle_variation adds a column <col>_percent_change_6hrs
\* for exactly the columns the difference pass processed (no _diff_6hrs column
\* is picked up); the cell is (current - value 6 rows earlier) / (value 6 rows
\* earlier) * 100, null in the first 6 rows and where the earlier value is
\* null, an infinity or null where the earlier value is 0; the rows and the
\* other columns stay as they were.
C11_PercentChangeOverSameColumns ==
  PctDone =>
    /\ NRows(merged_df) = NRows(before)
    /\ \A c \in ColSet(before) : SameColumn(before, merged_df, c)
    /\ ColSet(merged_df) = ColSet(before) \cup {c \o PercentChange6hrs : c \in Processed(before)}
    /\ PctAfterDiffDone =>
         /\ ColsWith(merged_df, PercentChange6hrs) = ColsWith(before, Diff6hrs)
         /\ \A c \in ColSet(before) :
              EndsWith(c, Diff6hrs) => c \o PercentChange6hrs \notin ColSet(merged_df)
    /\ \A c \in Processed(before) : \A i \in 1..NRows(before) :
         LET p == merged_df.rows[i][c \o PercentChange6hrs]
             cur == before.rows[i][c]
         IN IF NoEarlierValue(before, c, i) THEN IsNull(p)
            ELSE LET e == before.rows[i - 6][c]
                 IN IF e.n = 0 THEN p.t \in {"inf", "null"}
                    ELSE IF IsNull(cur) THEN IsNull(p)
                    ELSE p = Rat(100 * (cur.n * e.d - e.n * cur.d), cur.d * e.n)

\* The percentage pass applied after the difference pass to a table of more
\* than 6 rows: a finite change of the total, an infinite change over a zero
\* earlier value, and a null one over a null earlier value.
C11_Witness ==
  /\ PctAfterDiffDone
  /\ \E i \in 7..NRows(before) :
       /\ before.rows[i - 6][O3 \o Valeur] = Num(0)
       /\ merged_df.rows[i][O3 \o Valeur \o PercentChange6hrs] = Inf(1)
  /\ \E i \in 7..NRows(before) :
       /\ IsNull(before.rows[i - 6][O3 \o Valeur])
       /\ ~IsNull(before.rows[i][O3 \o Valeur])
       /\ IsNull(merged_df.rows[i][O3 \o Valeur \o PercentChange6hrs])
  /\ merged_df.rows[7][Total \o PercentChange6hrs] = Num(4800)

----------------------------------------------------------------------------
(* Properties of the sink and of repeated runs.                            *)

\* The run has ended with a write to the sink.
SinkWritten == pc = "done" /\ log # <<>> /\ log[Len(log)] = "sink"

\* The sink table as it was when the run that has just ended started.
Earlier == IF Len(runs) <= 1 THEN OldCurated ELSE runs[Len(runs) - 1]

\* C12: after ingest_dataframe_to_postgres the table curated holds exactly the
\* columns and rows of the final wide table of the run; no column and no row
\* of the table's earlier version remains, whatever that version held.
C12_SinkIsFullReplace ==
  SinkWritten =>
    /\ curated.cols = merged_df.cols
    /\ curated.rows = merged_df.rows
    /\ \A c \in ColSet(Earlier) \ ColSet(merged_df) : c \notin ColSet(curated)
    /\ NRows(curated) = NRows(merged_df)

\* A second run has written the sink over the table the first run left,
\* which had itself replaced a table with other columns and rows.
C12_Witness ==
  /\ SinkWritten
  /\ Len(runs) = 2
  /\ runs[1] # OldCurated
  /\ ColSet(OldCurated) \ ColSet(runs[1]) # {}
  /\ NRows(Earlier) >= 2
  /\ curated = merged_df

\* C13: main() run again over the same source tables leaves the table
\* curated as the run before left it.
C13_SecondRunLeavesSameTable ==
  \A k \in 2..Len(runs) : runs[k] = runs[k - 1]

\* Two runs that both wrote a table of several rows with derived columns.
C13_Witness ==
  /\ Len(runs) = 2
  /\ SinkWritten
  /\ runs[1] # OldCurated
  /\ runs[2] = runs[1]
  /\ NRows(runs[2]) >= 2
  /\ Total \o PercentChange6hrs \in ColSet(runs[2])

----------------------------------------------------------------------------
(* Properties of the early returns and of skipped tables.                  *)

\* No table of the store holds a row (there may be no table at all).
NoRows == \A t \in DOMAIN store : store[t] = <<>>

PassEntries == {"merge", "fill", "convert", "aggregate", "diff", "pct", "sink"}

\* C14: when the store has no table, or no table with a row, the run ends
\* early with a printed no-data message: no merge, feature pass or sink write
\* happens and the table curated stays as it was; merge_dataframes of an
\* empty list is an empty dataset.
C14_NoDataEndsEarly ==
  /\ NoRows =>
       /\ \A k \in 1..Len(log) : log[k] \notin PassEntries
       /\ pc \in {"start", "load", "done"}
       /\ processed_dfs = <<>>
       /\ curated = OldCurated
       /\ pc = "done" =>
            /\ log[Len(log)] = (IF DOMAIN store = {} THEN "no tables" ELSE "no data")
            /\ curated = Earlier
  /\ IsEmpty(merge_dataframes(<<>>))
  /\ merge_dataframes(<<>>) = EmptyDf

\* A second run over tables that all hold no row has ended with the no-data
\* message.
C14_Witness ==
  /\ NoRows
  /\ DOMAIN store # {}
  /\ pc = "done"
  /\ Len(runs) = 2
  /\ log = <<"list", "load", "load", "no data">>
  /\ curated = OldCurated

\* C15 as stated: the per-table normalizer removes every row whose valeur is
\* null, so no dataset handed to the merge holds a row with a null
\* <table>_valeur.
C15_NullValeurRowsRemoved ==
  \A k \in 1..Len(processed_dfs) :
    \A i \in 1..NRows(processed_dfs[k]) :
      \A c \in ColSet(processed_dfs[k]) :
        (EndsWith(c, Valeur) /\ ~EndsWith(c, TypeDeValeur)) =>
          ~IsNull(processed_dfs[k].rows[i][c])

----------------------------------------------------------------------------
(* Properties of drop_unwanted_col_and_add_table_prefix.                   *)

NormDone == pc = "fn_done" /\ log = <<"normalize">>

\* The name the claim gives column c of a table normalized under name t.
ClaimedName(c, t) == IF c \in {CodeSite, DateDeDebut} THEN c ELSE t \o c

----------------------------------------------------------------------------
(* Properties of main() over tables that cannot be used.                   *)

\* The store holds a table with rows that lack the column code_site.
HasKeyless ==
  /\ KeylessTable \in DOMAIN store
  /\ store[KeylessTable] # <<>>
  /\ CodeSite \notin DOMAIN store[KeylessTable][1]

\* The names of the listed tables other than those in S.
NamesWithout(S) == SelectSeq(list_tables(store), LAMBDA t : t \notin S)

\* What a run over the tables named leaves in the sink, when earlier is
\* what the sink held before.
RunOver(names, earlier) ==
  IF NormalizeAll(store, names) = <<>> THEN earlier
  ELSE Curate(NormalizeAll(store, names))

\* C17 as stated: a table that lacks a key column is skipped and the run goes
\* on: no error ends the run, the table is not handed to the merge, and the
\* run leaves the sink as a run over the other tables would.
C17_KeylessTableSkipped ==
  HasKeyless =>
    /\ pc # "error"
    /\ \A k \in 1..Len(processed_dfs) :
         {CodeSite, DateDeDebut} \subseteq ColSet(processed_dfs[k])
    /\ pc = "done" => curated = RunOver(NamesWithout({KeylessTable}), Earlier)

\* What the run does instead: with another table that holds rows the merge
\* raises KeyError and the sink stays as it was; alone, the table without
\* code_site goes through every pass and is written to the sink.
C17_KeylessTableIsFatalOrWritten ==
  HasKeyless =>
    /\ pc \in {"done", "error"} =>
         IF NormalizeAll(store, NamesWithout({KeylessTable})) # <<>>
         THEN pc = "error" /\ curated = OldCurated
         ELSE pc = "done" /\ CodeSite \notin ColSet(curated)
                          /\ KeylessTable \o Valeur \in ColSet(curated)

\* The tables of the store that hold no row.
EmptyTables == {t \in DOMAIN store : store[t] = <<>>}

\* Column c of a wide table comes from table t.
FromTable(c, t) == Len(c) > Len(t) /\ SubSeq(c, 1, Len(t)) = t

\* C18: a table whose load returns no rows is skipped and the run goes on:
\* the table gives no dataset, no row and no column to the merge, a run over
\* a store with another table that holds rows still reaches the sink, and
\* the sink then holds what a run over the tables other than the empty ones
\* gives.
C18_EmptyTableSkipped ==
  EmptyTables # {} =>
    /\ \A k \in 1..Len(processed_dfs) :
         /\ ~IsEmpty(processed_dfs[k])
         /\ \A c \in ColSet(processed_dfs[k]) : \A t \in EmptyTables : ~FromTable(c, t)
    /\ \A c \in ColSet(merged_df) : \A t \in EmptyTables : ~FromTable(c, t)
    /\ (pc = "done" /\ NormalizeAll(store, NamesWithout(EmptyTables)) # <<>>) =>
         /\ SinkWritten
         /\ curated = Curate(NormalizeAll(store, NamesWithout(EmptyTables)))

\* A run over an empty table no2, listed first, and a table o3 of several
\* rows has written the rows of o3 to the sink.
C18_Witness ==
  /\ DOMAIN store = {NO2, O3}
  /\ store[NO2] = <<>>
  /\ Len(store[O3]) >= 2
  /\ SinkWritten
  /\ NRows(curated) = Len(store[O3])
  /\ O3 \o Valeur \in ColSet(curated)

----------------------------------------------------------------------------
(* The staging stage (src/src/preprocess_to_staging.py): convert_value and *)
(* insert_data_into_cassandra. A CSV cell is its text; the texts in use    *)
(* and what strptime and float make of them are listed below.              *)

TauxDeSaisie == <<"taux", "de", "saisie">>

\* The normalized CSV header, as far as the curation stage or convert_value
\* looks at it.
CsvCols ==
  <<DateDeDebut, DateDeFin, CodeSite, Polluant, TypeDeValeur, Valeur, ValeurBrute,
    UniteDeMesure, TauxDeSaisie>>

\* A failed parse.
ValueError == [t |-> "raise", n |-> 0, d |-> 1, s |-> "ValueError"]

\* " " in value
HasSpace(value) ==
  value \in {"2024/01/01 01:00:00", "2024/01/01 02:00:00", "2024/01/01 03:00:00",
              "01/01/2024 01:00", " 3 "}

\* datetime.datetime.strptime(value, fmt), as hours from 2024/01/01 00:00.
strptime(value, fmt) ==
  CASE fmt = "%Y/%m/%d %H:%M:%S" /\ value = "2024/01/01 01:00:00" -> Date(1)
    [] fmt = "%Y/%m/%d %H:%M:%S" /\ value = "2024/01/01 02:00:00" -> Date(2)
    [] fmt = "%Y/%m/%d %H:%M:%S" /\ value = "2024/01/01 03:00:00" -> Date(3)
    [] fmt = "%Y/%m/%d" /\ value = "2024/01/02" -> Date(24)
    [] OTHER -> ValueError

\* float(value): surrounding blanks are accepted, a decimal comma is not.
float(value) ==
  CASE value = "1.5" -> Rat(3, 2)
    [] value = "2" -> Num(2)
    [] value = " 3 " -> Num(3)
    [] value = "100" -> Num(100)
    [] OTHER -> ValueError

convert_value(col_name, value) ==
  IF value = "" THEN Null
  ELSE IF col_name \in {DateDeDebut, DateDeFin}
       THEN LET parsed == IF HasSpace(value)
                          THEN strptime(value, "%Y/%m/%d %H:%M:%S")
                          ELSE strptime(value, "%Y/%m/%d")
            IN IF parsed = ValueError THEN Null ELSE parsed
  ELSE IF col_name \in {Valeur, ValeurBrute, TauxDeSaisie}
       THEN (IF float(value) = ValueError THEN Null ELSE float(value))
  ELSE Str(value)

\* converted_row = [convert_value(col, value) for col, value in zip(columns, row)]
ConvertedRow(row) == [c \in DOMAIN row |-> convert_value(c, row[c])]

\* Cassandra takes no null in a column of PRIMARY KEY (code_site,
\* date_de_debut): the INSERT is answered with InvalidRequest.
InvalidRequest(converted_row) ==
  IsNull(converted_row[CodeSite]) \/ IsNull(converted_row[DateDeDebut])

\* INSERT ... IF NOT EXISTS into a table kept in the order of its key.
InsertIfNotExists(rows, r) ==
  IF \E i \in 1..Len(rows) : KeyOf(rows[i]) = KeyOf(r) THEN rows
  ELSE SelectSeq(rows, LAMBDA x : KeyLess(KeyOf(x), KeyOf(r)))
       \o <<r>> \o SelectSeq(rows, LAMBDA x : KeyLess(KeyOf(r), KeyOf(x)))

MaxCsvRows == 3

CsvRow(debut, fin, valeur, brute, taux) ==
  [c \in {CsvCols[k] : k \in 1..Len(CsvCols)} |->
     CASE c = DateDeDebut -> debut
       [] c = DateDeFin -> fin
       [] c = CodeSite -> "S1"
       [] c = Polluant -> "O3"
       [] c = TypeDeValeur -> "moyenne horaire"
       [] c = Valeur -> valeur
       [] c = ValeurBrute -> brute
       [] c = UniteDeMesure -> "µg-m3"
       [] c = TauxDeSaisie -> taux]

\* The CSV rows in use: two well-formed rows, and rows with a cell that
\* strptime or float rejects in each of the five parsed columns.
CsvRows ==
  {CsvRow("2024/01/01 01:00:00", "2024/01/01 02:00:00", "1.5", "2", "100"),
   CsvRow("2024/01/01 02:00:00", "2024/01/02", "2", "", " 3 "),
   CsvRow("2024/01/01 03:00:00", "2024/01/02", "1,5", "2", "100"),
   CsvRow("2024/01/01 01:00:00", "2024/01/01 02:00:00", "2", "n/a", "n/a"),
   CsvRow("2024/01/01 02:00:00", "01/01/2024 01:00", "1.5", "2", "100"),
   CsvRow("2024-01-01", "2024/01/02", "1.5", "2", "100"),
   CsvRow("01/01/2024 01:00", "2024/01/02", "2", "2", "100")}

\* process_pollutant has created the table and calls
\* insert_data_into_cassandra with up to MaxCsvRows data rows.
InitStage ==
  /\ store = [t \in {O3} |-> <<>>]
  /\ \E n \in 1..MaxCsvRows : \E rs \in [1..n -> CsvRows] : data = [rows |-> rs, done |-> 0]
  /\ table_names = <<O3>>
  /\ pc = "insert"
  /\ processed_dfs = <<>>
  /\ merged_df = EmptyDf
  /\ before = EmptyDf
  /\ log = <<>>
  /\ curated = EmptyDf
  /\ runs = <<>>
  /\ par = NoPar
  /\ poll = NoPoll

\* One turn of the loop of insert_data_into_cassandra; an error of
\* session.execute is caught nowhere and ends the stage.
InsertRow ==
  /\ pc = "insert"
  /\ data.done < Len(data.rows)
  /\ LET converted_row == ConvertedRow(data.rows[data.done + 1])
     IN IF InvalidRequest(converted_row)
        THEN /\ pc' = "error"
             /\ log' = Append(log, "InvalidRequest")
             /\ UNCHANGED <<store, data>>
        ELSE /\ store' = [store EXCEPT ![O3] = InsertIfNotExists(@, converted_row)]
             /\ data' = [data EXCEPT !.done = @ + 1]
             /\ log' = Append(log, "insert")
             /\ pc' = pc
  /\ UNCHANGED <<table_names, processed_dfs, merged_df, before, curated, runs,
                 par, poll>>

InsertReturn ==
  /\ pc = "insert"
  /\ data.done = Len(data.rows)
  /\ pc' = "done"
  /\ UNCHANGED <<store, table_names, processed_dfs, merged_df, before, log, curated, runs,
                 data,
                 par, poll>>

NextStage ==
  \/ InsertRow
  \/ InsertReturn

SpecStage == InitStage /\ [][NextStage]_vars

----------------------------------------------------------------------------
(* Properties of convert_value and insert_data_into_cassandra.             *)

\* The texts no date format and no float accepts.
BadDates == {"2024-01-01", "01/01/2024 01:00"}

BadNumbers == {"1,5", "n/a"}

\* Cell c of a CSV row cannot be parsed.
Unparseable(row, c) ==
  \/ c \in {DateDeDebut, DateDeFin} /\ row[c] \in BadDates
  \/ c \in {Valeur, ValeurBrute, TauxDeSaisie} /\ row[c] \in BadNumbers

\* Row k of the data is the first with its code_site and date_de_debut texts.
FirstOfKey(k) ==
  \A j \in 1..(k - 1) :
    <<data.rows[j][CodeSite], data.rows[j][DateDeDebut]>>
      # <<data.rows[k][CodeSite], data.rows[k][DateDeDebut]>>

\* The staging table holds row with each unparseable cell null and the other
\* cells as convert_value gives them.
Staged(row) ==
  \E i \in 1..Len(store[O3]) :
    \A c \in DOMAIN row :
      store[O3][i][c] = (IF Unparseable(row, c) THEN Null ELSE convert_value(c, row[c]))

\* C19 as stated: a cell of date_de_debut, date_de_fin, valeur, valeur_brute
\* or taux_de_saisie that cannot be parsed is converted to null without an
\* error, and its row is still inserted with its other cells intact (a row
\* that repeats the key of an earlier row is left out of the comparison).
C19_BadCellRowRetained ==
  pc \in {"insert", "done", "error"} =>
    /\ pc # "error"
    /\ \A k \in 1..Len(data.rows) : \A c \in DOMAIN data.rows[k] :
         Unparseable(data.rows[k], c) => IsNull(convert_value(c, data.rows[k][c]))
    /\ \A k \in 1..data.done :
         ((\E c \in DOMAIN data.rows[k] : Unparseable(data.rows[k], c)) /\ FirstOfKey(k))
           => Staged(data.rows[k])

\* What holds: the same for the cells of date_de_fin, valeur, valeur_brute
\* and taux_de_saisie; a row whose date_de_debut cannot be parsed is refused
\* by the INSERT and ends the loop with an error, the rows after it unread.
C19_NonKeyBadCellRowRetained ==
  pc \in {"insert", "done", "error"} =>
    /\ \A k \in 1..Len(data.rows) : \A c \in DOMAIN data.rows[k] :
         Unparseable(data.rows[k], c) => IsNull(convert_value(c, data.rows[k][c]))
    /\ \A k \in 1..data.done :
         /\ ~Unparseable(data.rows[k], DateDeDebut)
         /\ FirstOfKey(k) => Staged(data.rows[k])
    /\ pc = "error" =>
         (data.done < Len(data.rows) /\ Unparseable(data.rows[data.done + 1], DateDeDebut))
    /\ pc = "done" =>
         \A k \in 1..Len(data.rows) : ~Unparseable(data.rows[k], DateDeDebut)

----------------------------------------------------------------------------
(* merge_dataframes and the order of its argument.                         *)

Orders(n) == {f \in [1..n -> 1..n] : \A i, j \in 1..n : f[i] = f[j] => i = j}

RowSet(df) == {df.rows[i] : i \in 1..NRows(df)}

\* C20: for every permutation of the list handed to merge_dataframes the
\* result has the same columns, the same keys and the same rows (each row a
\* key with a value in every column), as many of them; only the order of the
\* columns and of the rows may differ.
C20_FoldOrderIrrelevant ==
  MergeDone =>
    \A f \in Orders(Len(processed_dfs)) :
      LET other == merge_dataframes([k \in 1..Len(processed_dfs) |-> processed_dfs[f[k]]])
      IN /\ ColSet(other) = ColSet(merged_df)
         /\ RowKeys(other) = RowKeys(merged_df)
         /\ RowSet(other) = RowSet(merged_df)
         /\ NRows(other) = NRows(merged_df)

\* Three datasets with different key sets whose merge in another order has
\* another column order.
C20_Witness ==
  /\ MergeDone
  /\ Len(processed_dfs) = 3
  /\ RowKeys(processed_dfs[1]) # RowKeys(processed_dfs[2])
  /\ RowKeys(processed_dfs[2]) # RowKeys(processed_dfs[3])
  /\ NRows(merged_df) >= 3
  /\ merge_dataframes(<<processed_dfs[3], processed_dfs[1], processed_dfs[2]>>).cols
       # merged_df.cols

----------------------------------------------------------------------------
(* The order of the stages of main().                                      *)

\* The steps of a run over n listed tables that reaches the sink.
FullRun(n) ==
  <<"list">> \o [k \in 1..n |-> "load"]
    \o <<"merge", "fill", "convert", "aggregate", "diff", "pct", "sink">>

\* The step a run takes next at each position of main() after the loads.
StepBefore ==
  [p \in {"fill", "convert", "aggregate", "diff", "pct", "sink"} |->
     CASE p = "fill" -> "merge"
       [] p = "convert" -> "fill"
       [] p = "aggregate" -> "convert"
       [] p = "diff" -> "aggregate"
       [] p = "pct" -> "diff"
       [] p = "sink" -> "pct"]

\* C21: a run of main() that reaches the sink has loaded and normalized every
\* listed table, then merged, null-filled, converted units, aggregated,
\* computed the lag difference and the percent change, then written the sink:
\* each stage once, in that order, each on the whole table the stage before
\* left, the sink write last.
C21_StrictPipeline ==
  LET full == FullRun(Len(list_tables(store)))
  IN /\ SinkWritten => log = full
     /\ \A k \in 1..Len(log) :
          log[k] \in PassEntries \cup {"list", "load"} => k <= Len(full) /\ log[k] = full[k]
     /\ \A e \in PassEntries : Count(log, e) <= 1
     /\ pc \in DOMAIN StepBefore =>
          /\ log[Len(log)] = StepBefore[pc]
          /\ pc # "fill" => NRows(merged_df) = NRows(before)
     /\ SinkWritten => curated = Curate(processed_dfs)

\* A run over three tables has written the sink.
C21_Witness ==
  /\ SinkWritten
  /\ Len(list_tables(store)) = 3
  /\ Len(processed_dfs) = 3
  /\ log = FullRun(3)

----------------------------------------------------------------------------
(* The order of the rows when the lag passes run                            *)

\* The rows of df that carry the same code_site are in ascending order of
\* date_de_debut.
PerSiteAscending(df) ==
  {CodeSite, DateDeDebut} \subseteq ColSet(df) =>
    \A i, j \in 1..NRows(df) :
      (i < j /\ df.rows[i][CodeSite] = df.rows[j][CodeSite]) =>
        df.rows[i][DateDeDebut].n < df.rows[j][DateDeDebut].n

SitesOf(df) == {df.rows[i][CodeSite] : i \in 1..NRows(df)}

\* C22: when the lag-difference pass and the percent-change pass of main()
\* are about to run, and when they have run, the rows of the wide table that
\* belong to one site are in ascending order of date_de_debut, whether the
\* table comes from one staging table or from the merge of several, and
\* whether it holds one site or several.
C22_RowsOfASiteAscending ==
  pc \in {"diff", "pct", "sink"} => PerSiteAscending(merged_df)

\* Two tables with rows of two sites are merged, the second table holds a key
\* that sorts before a key of the first, and the lag pass is about to run.
C22_Witness ==
  /\ pc = "diff"
  /\ Len(processed_dfs) = 2
  /\ CodeSite \in ColSet(merged_df)
  /\ Cardinality(SitesOf(merged_df)) = 2
  /\ \E k1 \in RowKeys(processed_dfs[1]), k2 \in RowKeys(processed_dfs[2]) :
       k1[1] = k2[1] /\ k2[2].n < k1[2].n /\ k2 \notin RowKeys(processed_dfs[1])

\* One table with rows of two sites reaches the lag pass in the order of the
\* SELECT, the partition of S2 before the partition of S1.
C22_WitnessOneTable ==
  /\ pc = "diff"
  /\ Len(processed_dfs) = 1
  /\ NRows(merged_df) = 3
  /\ merged_df.rows[1][CodeSite] = Str("S2")
  /\ merged_df.rows[3][CodeSite] = Str("S1")

----------------------------------------------------------------------------
(* The lag of the difference pass                                           *)

\* C23: the lag is taken over the rows of the whole table, not inside a site:
\* for every processed column and every row that has 6 rows above it, when
\* the row's cell and the cell 6 rows above are both non-null, the
\* <col>_diff_6hrs cell is the row's cell minus the cell 6 rows above, also
\* when the two rows belong to different sites.
C23_LagIsGlobal ==
  DiffDone =>
    \A c \in Processed(before) : \A i \in (ShiftPeriods + 1)..NRows(before) :
      (~IsNull(ToNumeric(before.rows[i][c]))
         /\ ~IsNull(ToNumeric(before.rows[i - ShiftPeriods][c]))) =>
        merged_df.rows[i][c \o Diff6hrs] =
          Sub(before.rows[i][c], before.rows[i - ShiftPeriods][c])

\* A row of site S2 whose cell 6 rows above belongs to site S1, both cells
\* non-null and different: the difference is taken across the two sites.
C23_Witness ==
  /\ DiffDone
  /\ \E i \in (ShiftPeriods + 1)..NRows(before) :
       /\ before.rows[i][CodeSite] = Str("S2")
       /\ before.rows[i - ShiftPeriods][CodeSite] = Str("S1")
       /\ before.rows[i][O3 \o Valeur] = Num(1)
       /\ before.rows[i - ShiftPeriods][O3 \o Valeur] = Num(0)
       /\ merged_df.rows[i][O3 \o Valeur \o Diff6hrs] = Num(1)
       /\ merged_df.rows[i][Total \o Diff6hrs] # Num(0)

----------------------------------------------------------------------------
(* process_s3_files_parallel: the files of one pollutant are read by the    *)
(* threads of a pool, the main thread collects what each thread returns.    *)
(* A column name is a sequence of characters, a header a sequence of        *)
(* column names, a data row a sequence of cells.                            *)

\* unicodedata.normalize('NFKD', col).encode('ASCII', 'ignore'): an accented
\* letter keeps its base letter, any other non-ASCII character is dropped.
AsciiOf(ch) ==
  CASE ch = "é" -> <<"e">>
    [] ch = "µ" -> <<>>
    [] OTHER -> <<ch>>

RECURSIVE ToAscii(_)
ToAscii(col) == IF col = <<>> THEN <<>> ELSE AsciiOf(Head(col)) \o ToAscii(Tail(col))

Lower(col) == [k \in 1..Len(col) |-> IF col[k] = "D" THEN "d" ELSE col[k]]

RECURSIVE LStrip(_)
LStrip(col) ==
  IF col # <<>> /\ Head(col) = " " THEN LStrip(Tail(col)) ELSE col

RECURSIVE RStrip(_)
RStrip(col) ==
  IF col # <<>> /\ col[Len(col)] = " " THEN RStrip(SubSeq(col, 1, Len(col) - 1))
  ELSE col

Alnum == {"d", "e", "2"}

Digits == {"2"}

\* re.sub(r'[^a-z0-9]+', '_', col)
RECURSIVE SubNonAlnum(_)
SubNonAlnum(col) ==
  IF col = <<>> THEN <<>>
  ELSE IF Head(col) \in Alnum THEN <<Head(col)>> \o SubNonAlnum(Tail(col))
  ELSE IF Len(col) > 1 /\ col[2] \notin Alnum THEN SubNonAlnum(Tail(col))
  ELSE <<"_">> \o SubNonAlnum(Tail(col))

normalize_column_name(c) ==
  LET col == SubNonAlnum(RStrip(LStrip(Lower(ToAscii(c)))))
  IN IF col # <<>> /\ col[1] \in Digits THEN <<"_">> \o col ELSE col

NormalizeHeader(header) == [k \in 1..Len(header) |-> normalize_column_name(header[k])]

\* if row and any(cell.strip() for cell in row)
Whitespace == {"", " "}

NonBlank(row) == row # <<>> /\ \E k \in 1..Len(row) : row[k] \notin Whitespace

\* The files a listing may hold, as process_s3_file parses them: a list of
\* rows, the header first; an empty list for an empty file. The first two
\* headers differ and normalize to the same header, the third normalizes to
\* another one.
HeaderA == << <<"D", "é">> >>

HeaderB == << <<"d", "e", " ">> >>

HeaderC == << <<"2", "d", "-", " ", "µ", "e">> >>

FilePool ==
  << <<HeaderA, <<"a">>, <<"b">>>>,
     <<HeaderB, <<"a">>, <<" ">>, <<"a">>>>,
     <<HeaderC, <<"a">>, <<>>>>,
     <<>> >>

MaxFiles == 2

MaxWorkers == 2

InitPar ==
  /\ \E n \in 1..MaxFiles : \E ix \in [1..n -> 1..Len(FilePool)] :
       \E max_workers \in 1..MaxWorkers :
         par = [files |-> [i \in 1..n |-> FilePool[ix[i]]],
                max_workers |-> max_workers,
                status |-> [i \in 1..n |-> "submitted"],
                at |-> [i \in 1..n |-> 0],
                result_header |-> [i \in 1..n |-> None],
                unique_rows |-> [i \in 1..n |-> <<>>],
                seen |-> {},
                header_normalized |-> None,
                all_rows |-> <<>>]
  /\ pc = "as_completed"
  /\ store = <<>>
  /\ table_names = <<>>
  /\ processed_dfs = <<>>
  /\ merged_df = EmptyDf
  /\ before = EmptyDf
  /\ log = <<>>
  /\ curated = EmptyDf
  /\ runs = <<>>
  /\ data = NoCsv
  /\ poll = NoPoll

Running == {i \in DOMAIN par.files : par.status[i] = "running"}

\* A thread of the pool takes the next submitted file, reads it and
\* normalizes its header; an empty file is returned as (None, []).
StartFile(i) ==
  /\ par.status[i] = "submitted"
  /\ \A j \in 1..(i - 1) : par.status[j] # "submitted"
  /\ Cardinality(Running) < par.max_workers
  /\ LET rows == par.files[i]
     IN IF rows = <<>>
        THEN par' = [par EXCEPT !.status[i] = "returned"]
        ELSE par' = [par EXCEPT !.status[i] = "running",
                                !.at[i] = 1,
                                !.result_header[i] = {NormalizeHeader(rows[1])}]
  /\ UNCHANGED <<store, table_names, pc, processed_dfs, merged_df, before, log,
                 curated, runs, data, poll>>

\* ProcessRow with a seen set of the thread's own: a row is compared with the
\* rows the same file has added.
ProcessRowOwnSeen(i) ==
  /\ par.status[i] = "running"
  /\ par.at[i] < Len(par.files[i])
  /\ LET row == par.files[i][par.at[i] + 1]
         own == {par.unique_rows[i][k] : k \in 1..Len(par.unique_rows[i])}
     IN IF NonBlank(row) /\ row \notin own
        THEN par' = [par EXCEPT !.seen = @ \cup {row},
                                !.unique_rows[i] = Append(@, row),
                                !.at[i] = @ + 1]
        ELSE par' = [par EXCEPT !.at[i] = @ + 1]
  /\ UNCHANGED <<store, table_names, pc, processed_dfs, merged_df, before, log,
                 curated, runs, data, poll>>

\* One turn of the loop over rows[1:]; the test of seen and the add are one
\* step, both are made under the lock.
ProcessRow(i) ==
  /\ par.status[i] = "running"
  /\ par.at[i] < Len(par.files[i])
  /\ LET row == par.files[i][par.at[i] + 1]
     IN IF NonBlank(row) /\ row \notin par.seen
        THEN par' = [par EXCEPT !.seen = @ \cup {row},
                                !.unique_rows[i] = Append(@, row),
                                !.at[i] = @ + 1]
        ELSE par' = [par EXCEPT !.at[i] = @ + 1]
  /\ UNCHANGED <<store, table_names, pc, processed_dfs, merged_df, before, log,
                 curated, runs, data, poll>>

\* return normalized_header, unique_rows
ReturnFile(i) ==
  /\ par.status[i] = "running"
  /\ par.at[i] = Len(par.files[i])
  /\ par' = [par EXCEPT !.status[i] = "returned"]
  /\ UNCHANGED <<store, table_names, pc, processed_dfs, merged_df, before, log,
                 curated, runs, data, poll>>

\* One turn of the loop over as_completed(futures): any future that is done
\* and was not yielded yet.
Collect(i) ==
  /\ pc = "as_completed"
  /\ par.status[i] = "returned"
  /\ LET result_header == par.result_header[i]
         result_rows == par.unique_rows[i]
     IN IF result_header = None
        THEN par' = [par EXCEPT !.status[i] = "collected"]
        ELSE IF par.header_normalized = None
        THEN par' = [par EXCEPT !.status[i] = "collected",
                                !.header_normalized = result_header,
                                !.all_rows = result_rows]
        ELSE IF result_header = par.header_normalized
        THEN par' = [par EXCEPT !.status[i] = "collected",
                                !.all_rows = @ \o result_rows]
        ELSE par' = [par EXCEPT !.status[i] = "collected"]
  /\ UNCHANGED <<store, table_names, pc, processed_dfs, merged_df, before, log,
                 curated, runs, data, poll>>

\* return header_normalized, all_rows
ReturnAll ==
  /\ pc = "as_completed"
  /\ \A i \in DOMAIN par.files : par.status[i] = "collected"
  /\ pc' = "returned"
  /\ UNCHANGED <<store, table_names, processed_dfs, merged_df, before, log,
                 curated, runs, data, par, poll>>

NextPar ==
  \/ \E i \in DOMAIN par.files : StartFile(i)
  \/ \E i \in DOMAIN par.files : ProcessRow(i)
  \/ \E i \in DOMAIN par.files : ReturnFile(i)
  \/ \E i \in DOMAIN par.files : Collect(i)
  \/ ReturnAll

SpecPar == InitPar /\ [][NextPar]_vars

\* The loop over files of the sequential process_pollutant: the header of
\* the first file that is not empty, and the non-blank rows, each once, of
\* the files whose normalized header equals it.
RECURSIVE SequentialCollect(_, _, _, _)
SequentialCollect(files, header_normalized, seen, all_rows) ==
  IF files = <<>> THEN [header |-> header_normalized, rows |-> all_rows]
  ELSE LET rows == Head(files)
       IN IF rows = <<>>
          THEN SequentialCollect(Tail(files), header_normalized, seen, all_rows)
          ELSE IF header_normalized # None
                  /\ {NormalizeHeader(rows[1])} # header_normalized
          THEN SequentialCollect(Tail(files), header_normalized, seen, all_rows)
          ELSE LET lines == Tail(rows)
                   added == SelectSeq([k \in 1..Len(lines) |-> k],
                                      LAMBDA k : /\ NonBlank(lines[k])
                                                 /\ lines[k] \notin seen
                                                 /\ \A j \in 1..(k - 1) :
                                                      lines[j] # lines[k])
                   new_rows == [k \in 1..Len(added) |-> lines[added[k]]]
               IN SequentialCollect(Tail(files), {NormalizeHeader(rows[1])},
                                    seen \cup {new_rows[k] : k \in 1..Len(new_rows)},
                                    all_rows \o new_rows)

process_pollutant(files) == SequentialCollect(files, None, {}, <<>>)

----------------------------------------------------------------------------
(* Properties of process_s3_files_parallel.                                 *)

Returned == pc = "returned" /\ par.files # <<>>

RowsOf(rows) == {rows[k] : k \in 1..Len(rows)}

\* C24: whatever the interleaving of the threads and the order in which the
\* futures complete, no row occurs twice in the all_rows that
\* process_s3_files_parallel returns, and no blank row occurs in it; the same
\* holds of all_rows while the results are collected.
C24_NoDuplicateNoBlankRow ==
  /\ \A j, k \in 1..Len(par.all_rows) : j # k => par.all_rows[j] # par.all_rows[k]
  /\ \A k \in 1..Len(par.all_rows) : NonBlank(par.all_rows[k])

\* Two files with the same normalized header that share row a, one of them
\* with a blank row and with row a twice: both contribute to all_rows, which
\* holds a once.
C24_Witness ==
  /\ Returned
  /\ Len(par.files) = 2
  /\ par.files[1] = FilePool[1]
  /\ par.files[2] = FilePool[2]
  /\ par.unique_rows[1] = << <<"b">> >>
  /\ par.unique_rows[2] = << <<"a">> >>
  /\ RowsOf(par.all_rows) = {<<"a">>, <<"b">>}
  /\ Len(par.all_rows) = 2

\* The first file of the listing that is not empty.
RECURSIVE FirstNonEmpty(_)
FirstNonEmpty(files) ==
  IF files = <<>> THEN <<>>
  ELSE IF Head(files) # <<>> THEN Head(files) ELSE FirstNonEmpty(Tail(files))

FirstHeader(files) ==
  IF FirstNonEmpty(files) = <<>> THEN None
  ELSE {NormalizeHeader(FirstNonEmpty(files)[1])}

\* The non-blank data rows of the files whose normalized header is h.
MatchingRows(files, h) ==
  UNION {{files[i][k] : k \in {k \in 2..Len(files[i]) : NonBlank(files[i][k])}} :
           i \in {i \in 1..Len(files) :
                    files[i] # <<>> /\ {NormalizeHeader(files[i][1])} = h}}

\* C25 as stated: whatever the interleaving and the completion order,
\* process_s3_files_parallel returns the header of the first listed non-empty
\* file and, as a set, every non-blank data row of every file whose
\* normalized header equals it, which is what the sequential
\* process_pollutant collects from the same listing.
C25_ResultIndependentOfScheduling ==
  Returned =>
    /\ par.header_normalized = FirstHeader(par.files)
    /\ RowsOf(par.all_rows) = MatchingRows(par.files, FirstHeader(par.files))
    /\ par.header_normalized = process_pollutant(par.files).header
    /\ RowsOf(par.all_rows) = RowsOf(process_pollutant(par.files).rows)

\* The sequential process_pollutant does return what C25 describes.
C25_SequentialCollectsMatchingRows ==
  Returned =>
    /\ process_pollutant(par.files).header = FirstHeader(par.files)
    /\ RowsOf(process_pollutant(par.files).rows)
         = MatchingRows(par.files, FirstHeader(par.files))

\* What holds of the parallel result under every schedule: the header is
\* that of one of the non-empty files, and every returned row is a non-blank
\* row of a file with that header.
C25_RowsComeFromMatchingFiles ==
  Returned =>
    /\ par.header_normalized = None <=> FirstHeader(par.files) = None
    /\ RowsOf(par.all_rows) \subseteq MatchingRows(par.files, par.header_normalized)

\* Row a of the first listed file, whose header is the one returned, is
\* missing from the result: the thread of the second file, which is skipped
\* for its header, had put the row into seen.
C25_RowLostToSkippedFile ==
  /\ Returned
  /\ par.files = <<FilePool[1], FilePool[3]>>
  /\ par.header_normalized = FirstHeader(par.files)
  /\ <<"a">> \in MatchingRows(par.files, par.header_normalized)
  /\ <<"a">> \notin RowsOf(par.all_rows)

\* The header of the second listed file is returned: its future was
\* collected first.
C25_HeaderOfLaterFile ==
  /\ Returned
  /\ par.files = <<FilePool[1], FilePool[3]>>
  /\ par.header_normalized = {NormalizeHeader(HeaderC)}

----------------------------------------------------------------------------
(* unpacked_to_raw: process_pollutant_data asks the API for a file id,      *)
(* download_file polls for the file, upload_to_s3 stores it.                *)

\* `if not x` for a text or a content that may be None.
Falsy(x) == x = None \/ x = {""}

\* response.json(): the parsed body, or None when the body is no JSON
\* (ValueError). A parsed body is an object; status is 0 when the object has
\* no key "status".
NoJson == [object |-> FALSE, keys |-> 0, status |-> 0]

JsonStatus(code) == [object |-> TRUE, keys |-> 1, status |-> code]

\* The answers to a download request: the file, an empty body, the JSON
\* errors 412, 429 and 500, a JSON object without status, and {}.
DownloadResponses ==
  {[content |-> "date;valeur", data |-> NoJson],
   [content |-> "", data |-> NoJson],
   [content |-> "{status: 412}", data |-> JsonStatus(412)],
   [content |-> "{status: 429}", data |-> JsonStatus(429)],
   [content |-> "{status: 500}", data |-> JsonStatus(500)],
   [content |-> "{message: x}", data |-> [object |-> TRUE, keys |-> 1, status |-> 0]],
   [content |-> "{}", data |-> [object |-> TRUE, keys |-> 0, status |-> 0]]}

\* if data and "status" in data
HasStatus(response) ==
  response.data.object /\ response.data.keys > 0 /\ response.data.status # 0

NotReady(response) == HasStatus(response) /\ response.data.status = 412

RateLimited(response) == HasStatus(response) /\ response.data.status = 429

\* The answers to the export request: status code and text.
ExportResponses ==
  {[status_code |-> 200, text |-> " id1 "],
   [status_code |-> 200, text |-> " "],
   [status_code |-> 500, text |-> "error"]}

\* str.strip() of the texts above.
StripText(text) ==
  CASE text = " id1 " -> "id1"
    [] text = " " -> ""
    [] OTHER -> text

default_max_attempts == 5

MaxAttempts == 3

PollState(caller, file_id, max_attempts) ==
  [caller |-> caller,
   file_id |-> file_id,
   max_attempts |-> max_attempts,
   attempt |-> 0,
   responses |-> <<>>,
   waits |-> 0,
   outcome |-> "",
   file_content |-> None,
   uploaded |-> {},
   result |-> None]

\* process_pollutant_data is called, or download_file is called on its own
\* with a file id and any max_attempts.
InitPoll ==
  /\ \/ /\ poll = PollState("process_pollutant_data", None, default_max_attempts)
        /\ pc = "request_file_generation"
     \/ /\ \E max_attempts \in 0..MaxAttempts :
             poll = PollState("download_file", {"id1"}, max_attempts)
        /\ pc = "poll"
  /\ par = NoPar
  /\ store = <<>>
  /\ table_names = <<>>
  /\ processed_dfs = <<>>
  /\ merged_df = EmptyDf
  /\ before = EmptyDf
  /\ log = <<>>
  /\ curated = EmptyDf
  /\ runs = <<>>
  /\ data = NoCsv

\* request_file_generation and the test of its result; download_file then
\* sleeps and starts with attempt = 0.
RequestFileGeneration ==
  /\ pc = "request_file_generation"
  /\ \E response \in ExportResponses :
       LET file_id == IF response.status_code = 200
                      THEN {StripText(response.text)} ELSE None
       IN IF Falsy(file_id)
          THEN /\ poll' = [poll EXCEPT !.file_id = file_id, !.result = {FALSE}]
               /\ pc' = "done"
          ELSE /\ poll' = [poll EXCEPT !.file_id = file_id, !.attempt = 0]
               /\ pc' = "poll"
  /\ UNCHANGED <<store, table_names, processed_dfs, merged_df, before, log,
                 curated, runs, data, par>>

\* What follows the return of download_file.
AfterDownload == IF poll.caller = "process_pollutant_data" THEN "downloaded" ELSE "done"

\* Poll with a 429 answer treated as a 412 answer: wait and poll again.
PollRetryWhenRateLimited(response) ==
  /\ pc = "poll"
  /\ poll.attempt < poll.max_attempts
  /\ IF NotReady(response) \/ RateLimited(response)
     THEN /\ poll' = [poll EXCEPT !.responses = Append(@, response),
                                  !.waits = @ + 1,
                                  !.attempt = @ + 1]
          /\ pc' = pc
     ELSE /\ poll' = [poll EXCEPT !.responses = Append(@, response),
                                  !.outcome = "content",
                                  !.file_content = {response.content}]
          /\ pc' = AfterDownload
  /\ UNCHANGED <<store, table_names, processed_dfs, merged_df, before, log,
                 curated, runs, data, par>>

\* One turn of the loop of download_file: a request and what its answer
\* leads to.
Poll(response) ==
  /\ pc = "poll"
  /\ poll.attempt < poll.max_attempts
  /\ IF NotReady(response)
     THEN /\ poll' = [poll EXCEPT !.responses = Append(@, response),
                                  !.waits = @ + 1,
                                  !.attempt = @ + 1]
          /\ pc' = pc
     ELSE IF RateLimited(response)
     THEN /\ poll' = [poll EXCEPT !.responses = Append(@, response),
                                  !.outcome = "raise"]
          /\ pc' = "raised"
     ELSE /\ poll' = [poll EXCEPT !.responses = Append(@, response),
                                  !.outcome = "content",
                                  !.file_content = {response.content}]
          /\ pc' = AfterDownload
  /\ UNCHANGED <<store, table_names, processed_dfs, merged_df, before, log,
                 curated, runs, data, par>>

\* The loop ends without a file: return None.
PollExhausted ==
  /\ pc = "poll"
  /\ poll.attempt >= poll.max_attempts
  /\ poll' = [poll EXCEPT !.outcome = "None", !.file_content = None]
  /\ pc' = AfterDownload
  /\ UNCHANGED <<store, table_names, processed_dfs, merged_df, before, log,
                 curated, runs, data, par>>

\* if not file_content: return False
SkipUpload ==
  /\ pc = "downloaded"
  /\ Falsy(poll.file_content)
  /\ poll' = [poll EXCEPT !.result = {FALSE}]
  /\ pc' = "done"
  /\ UNCHANGED <<store, table_names, processed_dfs, merged_df, before, log,
                 curated, runs, data, par>>

\* upload_to_s3: the object is stored and True returned, or the client
\* raises, which is caught, and False is returned.
Upload ==
  /\ pc = "downloaded"
  /\ ~Falsy(poll.file_content)
  /\ \E stored \in BOOLEAN :
       poll' = [poll EXCEPT !.uploaded = IF stored THEN poll.file_content ELSE @,
                            !.result = {stored}]
  /\ pc' = "done"
  /\ UNCHANGED <<store, table_names, processed_dfs, merged_df, before, log,
                 curated, runs, data, par>>

NextPoll ==
  \/ RequestFileGeneration
  \/ \E response \in DownloadResponses : Poll(response)
  \/ PollExhausted
  \/ SkipUpload
  \/ Upload

\* The program is one thread that keeps running: a step that can be taken is
\* taken. Every request is answered.
SpecPoll == InitPoll /\ [][NextPoll]_vars /\ WF_vars(NextPoll)

----------------------------------------------------------------------------
(* Properties of download_file and process_pollutant_data.                  *)

Last(seq) == seq[Len(seq)]

PollingIsBounded ==
  /\ Len(poll.responses) <= poll.max_attempts
  /\ \A k \in 1..(Len(poll.responses) - 1) : NotReady(poll.responses[k])
  /\ poll.waits = Cardinality({k \in 1..Len(poll.responses) : NotReady(poll.responses[k])})
  /\ pc = "poll" =>
       /\ poll.outcome = ""
       /\ \A k \in 1..Len(poll.responses) : NotReady(poll.responses[k])

OutcomeFollowsAnswer ==
  /\ poll.outcome = "content" <=>
       /\ poll.responses # <<>>
       /\ ~NotReady(Last(poll.responses))
       /\ ~RateLimited(Last(poll.responses))
  /\ poll.outcome = "content" => poll.file_content = {Last(poll.responses).content}
  /\ poll.outcome = "raise" <=>
       poll.responses # <<>> /\ RateLimited(Last(poll.responses))
  /\ poll.outcome = "raise" => pc = "raised"
  /\ poll.outcome = "None" =>
       /\ Len(poll.responses) = poll.max_attempts
       /\ \A k \in 1..Len(poll.responses) : NotReady(poll.responses[k])
       /\ poll.file_content = None

UploadIsGuarded ==
  poll.uploaded # {} =>
    /\ ~Falsy(poll.file_id)
    /\ poll.outcome = "content"
    /\ poll.uploaded = poll.file_content
    /\ poll.uploaded # {""}

PollTerminated == pc \in {"done", "raised"}

\* C26: download_file always terminates; it sends at most max_attempts
\* requests, polls again only after an answer whose JSON status is 412,
\* returns the content of the first answer that has neither status 412 nor
\* 429, raises on status 429 without another request, and returns None after
\* max_attempts answers 412 in a row; process_pollutant_data uploads only
\* when it obtained a file id and a non-empty content.
C26_BoundedPolling ==
  /\ [](PollingIsBounded /\ OutcomeFollowsAnswer /\ UploadIsGuarded)
  /\ <>PollTerminated

\* process_pollutant_data has uploaded the file it received after four
\* answers 412.
C26_Witness ==
  /\ pc = "done"
  /\ poll.caller = "process_pollutant_data"
  /\ Len(poll.responses) = default_max_attempts
  /\ poll.waits = default_max_attempts - 1
  /\ poll.uploaded = {"date;valeur"}

\* download_file has returned None after max_attempts answers 412.
C26_WitnessExhausted ==
  /\ poll.outcome = "None"
  /\ poll.max_attempts = MaxAttempts
  /\ Len(poll.responses) = MaxAttempts

\* download_file has raised on an answer 429 that followed an answer 412.
C26_WitnessRateLimited ==
  /\ pc = "raised"
  /\ Len(poll.responses) = 2
====
